---- MODULE Spec2Model ----
(***************************************************************************)
(* A model of the manga crawler: the crawl session of MangaCrawler         *)
(* (crawl.py), the tree of Manga / Chapter / Page (manga.py, chapter.py,   *)
(* page.py), the JSON cache file and the reconciliation of a freshly       *)
(* fetched manga with its cached version.                                  *)
(***************************************************************************)
EXTENDS Integers, Sequences, FiniteSets, Bags, TLC

(***************************************************************************)
(* Bounds of the model.                                                    *)
(***************************************************************************)
\* The worker threads of a session, chapter threads and page threads together
\* (at least one of each).
MaxThreads == 3
\* The chapters the site lists for the manga, and the pages of a chapter.
NumChapters == 2
NumPages == 2
\* The chapter numbers of the lists given to updateFromCache on its own.
MaxNum == 3
MaxRuns == 2
\* The manga URLs of the list given to the crawler, when it holds several.
NumMangas == 2
\* The threads that call Manga.save of one manga on its own.
NumSavers == 3

(***************************************************************************)
(* Values.  Every string of the program (title, URL, file name, path) is a *)
(* sequence of characters; None is a value no string equals.               *)
(***************************************************************************)
None == <<"None">>

DigitChars == <<"0", "1", "2", "3", "4", "5", "6", "7", "8", "9">>

RECURSIVE Digits(_)
Digits(n) == IF n < 10 THEN <<DigitChars[n + 1]>>
             ELSE Digits(n \div 10) \o <<DigitChars[(n % 10) + 1]>>

\* Python's f'{n:0w}': the decimal digits of n, zero-padded to at least w.
ZeroPad(n, w) ==
    LET d == Digits(n)
    IN  IF Len(d) >= w THEN d ELSE [i \in 1..(w - Len(d)) |-> "0"] \o d

InvalidFilenameChars == {"<", ">", ":", "\"", "/", "\\", "|", "?", "*", "."}

\* Manga.directoryName / Chapter.directoryName: None for no title, else the
\* title with every invalid character replaced by an underscore.
DirectoryName(title) ==
    IF title = None THEN None
    ELSE [i \in DOMAIN title |->
            IF title[i] \in InvalidFilenameChars THEN "_" ELSE title[i]]

ValidExts == {<<"p", "n", "g">>, <<"j", "p", "g">>, <<"j", "p", "e", "g">>}

\* str.rsplit('.', 1)[-1]: the text after the last '.'.
LastDot(s) == CHOOSE i \in DOMAIN s :
                  s[i] = "." /\ \A j \in DOMAIN s : j > i => s[j] # "."

ExtOf(s) == SubSeq(s, LastDot(s) + 1, Len(s))

\* A getImageFilename that takes any text after the last '.' for the
\* extension.
GetImageFilenameAnyExt(page) ==
    IF page.imageUrl = None THEN <<"raise">>
    ELSE IF \A i \in DOMAIN page.imageUrl : page.imageUrl[i] # "." THEN <<"raise">>
    ELSE ZeroPad(page.num, 4) \o <<".">> \o ExtOf(page.imageUrl)

\* Page.getImageFilename: <<"raise">> or the file name.
GetImageFilename(page) ==
    IF page.imageUrl = None THEN <<"raise">>
    ELSE IF \A i \in DOMAIN page.imageUrl : page.imageUrl[i] # "." THEN <<"raise">>
    ELSE IF ExtOf(page.imageUrl) \notin ValidExts THEN <<"raise">>
    ELSE ZeroPad(page.num, 4) \o <<".">> \o ExtOf(page.imageUrl)

(***************************************************************************)
(* The remote site.  The title and the listings are what the site-specific *)
(* parser returns; the image URL of a page is an input of the model.       *)
(***************************************************************************)
MangaUrl == <<"m">>
RemoteTitle == <<"a", ":", "b">>
ChapterUrl(n) == <<"c">> \o Digits(n)
PageUrl(n) == <<"x">> \o Digits(n)

\* Page.__init__
NewPage(num, pageUrl, imageUrl, filePath, filename, isDownloaded) ==
    [num |-> num, pageUrl |-> pageUrl, imageUrl |-> imageUrl,
     filePath |-> filePath, filename |-> filename,
     isDownloaded |-> isDownloaded, isProcessed |-> FALSE]

\* Chapter.__init__
NewChapter(num, url, title, pages) ==
    [num |-> num, url |-> url, title |-> title, pages |-> pages]

\* Manga.getChapters: skeleton chapters, numbered from 1, titled 'Chapter 00n'.
SkeletonChapter(n) ==
    NewChapter(n, ChapterUrl(n), <<"C", "h", " ">> \o ZeroPad(n, 3), <<>>)

GetChapters == [i \in 1..NumChapters |-> SkeletonChapter(i)]

\* Manga.fetch / updateWithSoup on success.
FetchedManga == [url |-> MangaUrl, title |-> RemoteTitle, chapters |-> GetChapters]

\* Chapter.getTitle
GetTitle(num) == <<"S", "C", "T">> \o Digits(num)

\* Chapter.getPages: skeleton pages, numbered from 1, for a site that gives
\* page i the image URL site[i] (None where it gives none).
GetPages(site) ==
    [i \in 1..NumPages |-> NewPage(i, PageUrl(i), site[i], None, None, FALSE)]

(***************************************************************************)
(* The JSON cache file.                                                    *)
(***************************************************************************)
NoCache == [kind |-> "none"]
CorruptCache == [kind |-> "corrupt"]

\* Page.toDict
PageToDict(p) ==
    [num |-> p.num, pageUrl |-> p.pageUrl, imageUrl |-> p.imageUrl,
     filePath |-> p.filePath, filename |-> p.filename,
     isDownloaded |-> p.isDownloaded]

\* Chapter.toDict
ChapterToDict(c) ==
    [num |-> c.num, url |-> c.url, title |-> c.title,
     pages |-> [i \in DOMAIN c.pages |-> PageToDict(c.pages[i])]]

\* Manga.toDict
ToDict(m) ==
    [kind |-> "json", url |-> m.url, title |-> m.title,
     chapters |-> [i \in DOMAIN m.chapters |-> ChapterToDict(m.chapters[i])]]

\* A Page.fromJson that does not read the isDownloaded key.
PageFromJsonForgetsDownloaded(j) ==
    NewPage(j.num, j.pageUrl, j.imageUrl, j.filePath, j.filename, FALSE)

\* Page.fromJson
PageFromJson(j) ==
    NewPage(j.num, j.pageUrl, j.imageUrl, j.filePath, j.filename, j.isDownloaded)

\* Chapter.fromJson
ChapterFromJson(j) ==
    NewChapter(j.num, j.url, j.title,
               [i \in DOMAIN j.pages |-> PageFromJson(j.pages[i])])

\* Manga.fromJson
FromJson(j) ==
    [url |-> j.url, title |-> j.title,
     chapters |-> [i \in DOMAIN j.chapters |-> ChapterFromJson(j.chapters[i])]]

(***************************************************************************)
(* Chapter properties.                                                     *)
(***************************************************************************)
\* Chapter.isDownloaded
ChapterIsDownloaded(c) ==
    /\ c.title # None
    /\ Len(c.pages) # 0
    /\ \A i \in DOMAIN c.pages : c.pages[i].isDownloaded

\* An isProcessed that is true only when every page is downloaded.
ChapterIsProcessedWhenDownloaded(c) ==
    \A i \in DOMAIN c.pages : c.pages[i].isDownloaded

\* Chapter.isProcessed
ChapterIsProcessed(c) ==
    \A i \in DOMAIN c.pages : c.pages[i].isDownloaded \/ c.pages[i].isProcessed

(***************************************************************************)
(* Manga.updateFromCache, after the cache has been loaded.                 *)
(***************************************************************************)
\* A match loop that copies url and title of the cached chapter, not its pages.
MatchCachedKeepsPages(freshChapter, cachedChapters) ==
    IF \E j \in DOMAIN cachedChapters : cachedChapters[j].num = freshChapter.num
    THEN LET j == CHOOSE j \in DOMAIN cachedChapters :
                    cachedChapters[j].num = freshChapter.num
         IN  [freshChapter EXCEPT !.url = cachedChapters[j].url,
                                  !.title = cachedChapters[j].title]
    ELSE freshChapter

\* Lines 251-257: a fresh chapter takes url, title and pages of the first
\* cached chapter with its number.
MatchCached(freshChapter, cachedChapters) ==
    IF \E j \in DOMAIN cachedChapters : cachedChapters[j].num = freshChapter.num
    THEN LET j == CHOOSE j \in DOMAIN cachedChapters :
                    /\ cachedChapters[j].num = freshChapter.num
                    /\ \A k \in 1..(j - 1) : cachedChapters[k].num # freshChapter.num
         IN  [freshChapter EXCEPT !.url = cachedChapters[j].url,
                                  !.title = cachedChapters[j].title,
                                  !.pages = cachedChapters[j].pages]
    ELSE freshChapter

\* An updateFromCache without the loop of lines 261-264.
AppendMissingSkipped(chapters, cachedChapters, j) == chapters

\* Lines 261-264: the cached chapters whose number is not in the (growing)
\* fresh list are appended, in cache order.
RECURSIVE AppendMissing(_, _, _)
AppendMissing(chapters, cachedChapters, j) ==
    IF j > Len(cachedChapters) THEN chapters
    ELSE IF \E i \in DOMAIN chapters : chapters[i].num = cachedChapters[j].num
         THEN AppendMissing(chapters, cachedChapters, j + 1)
         ELSE AppendMissing(Append(chapters, cachedChapters[j]), cachedChapters, j + 1)

\* Line 267: list.sort(key=num), a stable sort, as an insertion sort.
RECURSIVE InsertByNum(_, _)
InsertByNum(sorted, c) ==
    IF sorted = <<>> THEN <<c>>
    ELSE IF sorted[Len(sorted)].num <= c.num THEN Append(sorted, c)
    ELSE Append(InsertByNum(SubSeq(sorted, 1, Len(sorted) - 1), c), sorted[Len(sorted)])

RECURSIVE SortByNum(_)
SortByNum(chapters) ==
    IF chapters = <<>> THEN <<>>
    ELSE InsertByNum(SortByNum(SubSeq(chapters, 1, Len(chapters) - 1)),
                     chapters[Len(chapters)])

UpdateFromCache(fresh, cachedManga) ==
    LET matched == [i \in DOMAIN fresh.chapters |->
                        MatchCached(fresh.chapters[i], cachedManga.chapters)]
        merged  == AppendMissing(matched, cachedManga.chapters, 1)
    IN  [fresh EXCEPT !.title = cachedManga.title,
                      !.chapters = SortByNum(merged)]

(***************************************************************************)
(* The crawl session.                                                      *)
(*                                                                         *)
(* chapterThreadCount, pageThreadCount : the pool sizes given to __init__  *)
(* imageUrlOf    : the image URL the site gives for each page number       *)
(* environment   : what the surroundings of the session may do: who may    *)
(*                 cancel it ("interrupt": Ctrl+C in the thread of crawl(),*)
(*                 "stop": a call of stop() by another thread), whether    *)
(*                 writing the cache file may fail, and whether the        *)
(*                 parser of the chapter listing raises on this site       *)
(* disk          : the cache file of the manga's directory                 *)
(* mainPc        : where the thread that called crawl() is                 *)
(* extPc         : where a thread that calls stop() is                     *)
(* chapterThreads, pageThreads : the worker threads of the current manga,  *)
(*                 each a bag of thread states (threads of a pool differ   *)
(*                 in nothing but their state)                             *)
(* enqueued      : the pages put on pageQueue for the current manga        *)
(* log           : what the session did so far: the network calls made,    *)
(*                 whether the fetch of the manga raised, the chapters     *)
(*                 whose fetch raised, the calls of                        *)
(*                 Manga.save that raised, and the lines that              *)
(*                 displayUnsuccessfulItems wrote, one <<"chapter", c>>    *)
(*                 or <<"page", id>> for each; and over all runs of the    *)
(*                 program so far, the number of the runs and the          *)
(*                 downloads that returned without error, each as          *)
(*                 <<chapter number, page number>>                         *)
(* diskAtStart   : the cache file when the program started                 *)
(* mergeInput, mergeOutput : a fresh and a cached manga, and the fresh one *)
(*                 after updateFromCache (used on its own, without a       *)
(*                 session)                                                *)
(* report        : what displayUnsuccessfulItems reported                  *)
(* savers, cacheLock, lastSave : threads that call Manga.save of one manga *)
(*                 (used on its own, without a session): where each is in  *)
(*                 save() and the tree it serialized, whether _cacheLock   *)
(*                 is held, and how the last call that ended ended         *)
(***************************************************************************)
VARIABLES chapterThreadCount, pageThreadCount, imageUrlOf, environment, disk,
          diskAtStart, mergeInput, mergeOutput,
          mainPc, extPc, isCrawling, manga, killEvent, endEvent,
          chapterQueue, pageQueue, failedChapters, failedPages,
          chapterThreads, pageThreads, enqueued, log, report,
          savers, cacheLock, lastSave

vars == <<chapterThreadCount, pageThreadCount, imageUrlOf, environment, disk,
          diskAtStart, mergeInput, mergeOutput,
          mainPc, extPc, isCrawling, manga, killEvent, endEvent,
          chapterQueue, pageQueue, failedChapters, failedPages,
          chapterThreads, pageThreads, enqueued, log, report,
          savers, cacheLock, lastSave>>

config == <<chapterThreadCount, pageThreadCount, imageUrlOf, environment,
            diskAtStart, mergeInput, mergeOutput, savers, cacheLock>>
session == <<isCrawling, killEvent, failedChapters, failedPages, report>>
queues == <<chapterQueue, pageQueue, enqueued>>

NoManga == [url |-> None]

\* The sites of the model: one whose image URLs are valid, one whose pages
\* have no image URL or an image URL with an extension that is not valid, and
\* one whose pages have no image URL at all (as the Chapter.getPages of the
\* repository leaves them).
StubSite == [i \in 1..NumPages |-> None]
ValidSite == [i \in 1..NumPages |-> <<"i", ".", "j", "p", "g">>]
InvalidSite == [i \in 1..NumPages |-> IF i % 2 = 1 THEN None
                                      ELSE <<"i", ".", "g", "i", "f">>]

\* MangaCrawler.__init__
InitSession ==
    /\ mainPc = "crawl"
    /\ extPc = "idle"
    /\ isCrawling = FALSE
    /\ manga = NoManga
    /\ killEvent = FALSE
    /\ endEvent = FALSE
    /\ chapterQueue = <<>>
    /\ pageQueue = <<>>
    /\ failedChapters = EmptyBag
    /\ failedPages = EmptyBag
    /\ chapterThreads = EmptyBag
    /\ pageThreads = EmptyBag
    /\ enqueued = EmptyBag
    /\ log = [manga |-> 0, chapter |-> 0, image |-> 0, raised |-> {},
              saveRaised |-> 0, fetchRaised |-> FALSE, lines |-> EmptyBag,
              downloads |-> EmptyBag, runs |-> 1]
    /\ report = "none"
    /\ savers = <<>>
    /\ cacheLock = FALSE
    /\ lastSave = "none"

Init ==
    /\ chapterThreadCount \in 1..(MaxThreads - 1)
    /\ pageThreadCount \in 1..(MaxThreads - chapterThreadCount)
    /\ imageUrlOf \in {ValidSite, InvalidSite, StubSite}
    /\ environment \in [canceller : {"interrupt", "stop"}, saveMayFail : {FALSE},
                        listing : {"ok", "raises"}]
    /\ disk = NoCache
    /\ diskAtStart = disk
    /\ mergeInput = NoManga
    /\ mergeOutput = NoManga
    /\ InitSession

\* Joins of the chapter threads only.
ChapterThreadsDone == \A t \in BagToSet(chapterThreads) : t.pc = "done"

\* The joins of waitForCompletion and of stop(): every thread has exited.
AllThreadsDone ==
    /\ \A t \in BagToSet(chapterThreads) : t.pc = "done"
    /\ \A t \in BagToSet(pageThreads) : t.pc = "done"

\* A thread of a pool goes from state t to state u.
Step(pool, t, u) == (pool (-) SetToBag({t})) (+) SetToBag({u})

\* n threads in state t.
Threads(n, t) == [x \in {t} |-> n]

\* Manga.save, called through MangaCrawler.saveManga, which swallows the
\* error: the file written whole, or left as it was when save raised.
\* A save() that keeps raising once it has raised.
SaveOutcomesStuck ==
    IF log.saveRaised > 0 THEN {"raised"} ELSE {"written", "raised", "truncated"}

\* Manga.save, lines 290-309: what a call of save() can do. It raises
\* before the file is opened (always, when the manga has no directory name),
\* it raises in the with block after open() has truncated the file, or it
\* writes the file.
SaveOutcomes ==
    IF manga = NoManga THEN {"skipped"}
    ELSE IF DirectoryName(manga.title) = None THEN {"raised"}
    ELSE IF environment.saveMayFail THEN {"written", "raised", "truncated"}
    ELSE {"written"}

SavedDisk(outcome) ==
    IF outcome = "written" THEN ToDict(manga)
    ELSE IF outcome = "truncated" THEN CorruptCache
    ELSE disk

\* saveManga, lines 463-472: the manga is saved, and an error of save() is
\* logged and goes no further.
SaveManga ==
    \E outcome \in SaveOutcomes :
       /\ disk' = SavedDisk(outcome)
       /\ lastSave' = IF outcome = "skipped" THEN lastSave
                      ELSE IF outcome = "written" THEN "returned" ELSE "raised"
       /\ log' = IF outcome \in {"raised", "truncated"}
                 THEN [log EXCEPT !.saveRaised = @ + 1] ELSE log

\* A step of a thread that does not call saveManga.
NoSave == UNCHANGED <<disk, lastSave, log>>

(***************************************************************************)
(* The thread of crawl().                                                  *)
(***************************************************************************)
\* crawl(), lines 70-77
Crawl ==
    /\ mainPc = "crawl"
    /\ isCrawling' = TRUE
    /\ killEvent' = FALSE
    /\ failedChapters' = EmptyBag
    /\ failedPages' = EmptyBag
    /\ mainPc' = "fetchManga"
    /\ UNCHANGED <<config, lastSave, disk, extPc, manga, endEvent, queues,
                   chapterThreads, pageThreads, log, report>>

\* Manga.__init__
NewManga(url) == [url |-> url, title |-> None, chapters |-> <<>>]

\* A fetchManga that merges with an empty manga when the cache file cannot
\* be loaded.
MergedWithEmptyCache ==
    UpdateFromCache(FetchedManga,
                    IF disk.kind = "json" THEN FromJson(disk) ELSE NewManga(MangaUrl))

\* fetchManga, lines 151-162: the fetched manga, merged with the cache when
\* the cache file can be loaded.
FetchedAndMerged ==
    IF disk.kind = "json" THEN UpdateFromCache(FetchedManga, FromJson(disk))
    ELSE FetchedManga

\* fetchManga and the test of _crawl, line 103.  self.manga is assigned the
\* new Manga before fetch() is called, so when fetch() raises, fetchManga
\* returns with self.manga the manga as far as fetch() got: without title
\* (the download or getTitle raised) or with the title and no chapters
\* (getChapters raised).  The test of line 103 then finds a manga.
FetchManga ==
    /\ mainPc = "fetchManga"
    /\ \E ok \in BOOLEAN :
          /\ manga' = IF ~ok THEN NewManga(MangaUrl)
                      ELSE IF environment.listing = "raises"
                      THEN [NewManga(MangaUrl) EXCEPT !.title = RemoteTitle]
                      ELSE FetchedAndMerged
          /\ log' = [log EXCEPT !.manga = @ + 1,
                                !.fetchRaised = ~ok \/ environment.listing = "raises"]
    /\ mainPc' = IF manga' = NoManga THEN "display" ELSE "startThreads"
    /\ UNCHANGED <<config, lastSave, disk, extPc, session, endEvent, queues,
                   chapterThreads, pageThreads>>

\* startThreads, lines 181-187: the chapters that are not downloaded, in
\* list order.
\* A queue of every chapter, downloaded or not.
EveryChapter(chapters, i) == [k \in 1..Len(chapters) |-> k]

RECURSIVE NotDownloaded(_, _)
NotDownloaded(chapters, i) ==
    IF i > Len(chapters) THEN <<>>
    ELSE IF ~ChapterIsDownloaded(chapters[i])
         THEN <<i>> \o NotDownloaded(chapters, i + 1)
         ELSE NotDownloaded(chapters, i + 1)

StartThreads ==
    /\ mainPc = "startThreads"
    /\ chapterQueue' = NotDownloaded(manga.chapters, 1)
    /\ pageQueue' = <<>>
    /\ enqueued' = EmptyBag
    /\ endEvent' = (chapterQueue' = <<>>)
    /\ chapterThreads' = Threads(chapterThreadCount,
                                 [pc |-> "loop", chapter |-> 0, idx |-> 0])
    /\ pageThreads' = Threads(pageThreadCount, [pc |-> "loop", page |-> <<>>])
    /\ mainPc' = "wait"
    /\ UNCHANGED <<config, lastSave, disk, extPc, session, manga, log>>

\* waitForCompletion, line 229: the condition of the polling loop.
WaitCondition == ~endEvent \/ pageQueue # <<>>

\* waitForCompletion, lines 229-230: the polling loop ends.
WaitForCompletion ==
    /\ mainPc = "wait"
    /\ ~WaitCondition
    /\ mainPc' = "join"
    /\ UNCHANGED <<config, lastSave, disk, extPc, session, manga, endEvent,
                   queues, chapterThreads, pageThreads, log>>

\* waitForCompletion, lines 234-241: every join has returned.
JoinThreads ==
    /\ mainPc = "join"
    /\ AllThreadsDone
    /\ mainPc' = "finalSave"
    /\ UNCHANGED <<config, lastSave, disk, extPc, session, manga, endEvent,
                   queues, chapterThreads, pageThreads, log>>

\* _crawl, line 118, and the end of the loop of crawl().
FinalSave ==
    /\ mainPc = "finalSave"
    /\ SaveManga
    /\ mainPc' = "display"
    /\ UNCHANGED <<config, extPc, session, manga, endEvent,
                   queues, chapterThreads, pageThreads>>

\* KeyboardInterrupt raised in the thread of crawl(), inside the try block.
KeyboardInterrupt ==
    /\ environment.canceller \in {"interrupt", "both"}
    /\ mainPc \in {"fetchManga", "startThreads", "wait", "join", "finalSave"}
    /\ mainPc' = "stop"
    /\ UNCHANGED <<config, lastSave, disk, extPc, session, manga, endEvent,
                   queues, chapterThreads, pageThreads, log>>

\* stop(), lines 408-412, called by crawl().
Stop ==
    /\ mainPc = "stop"
    /\ IF isCrawling
       THEN /\ isCrawling' = FALSE
            /\ killEvent' = TRUE
            /\ mainPc' = "stopJoin"
       ELSE /\ mainPc' = "display"
            /\ UNCHANGED <<isCrawling, killEvent>>
    /\ UNCHANGED <<config, lastSave, disk, extPc, failedChapters, failedPages,
                   report, manga, endEvent, queues, chapterThreads, pageThreads,
                   log>>

\* stop(), lines 414-432: every join has returned.
StopJoin ==
    /\ mainPc = "stopJoin"
    /\ AllThreadsDone
    /\ mainPc' = "display"
    /\ UNCHANGED <<config, lastSave, disk, extPc, session, manga, endEvent,
                   queues, chapterThreads, pageThreads, log>>

\* displayUnsuccessfulItems.  With no failure it reports success.  Otherwise
\* it takes every chapter from _failedChapters and writes its line; then, if
\* _failedPages is not empty, it takes a page from it and evaluates page.url
\* for the line (line 457), an attribute Page does not have: AttributeError
\* leaves displayUnsuccessfulItems and crawl(), the line of the page not
\* written and the other pages still in _failedPages.
DisplayUnsuccessfulItems ==
    /\ mainPc = "display"
    /\ IF failedChapters = EmptyBag /\ failedPages = EmptyBag
       THEN /\ report' = "success"
            /\ mainPc' = "returned"
            /\ UNCHANGED <<failedChapters, failedPages, log>>
       ELSE /\ report' = "failures"
            /\ failedChapters' = EmptyBag
            /\ log' = [log EXCEPT !.lines =
                          @ (+) [l \in {<<"chapter", c>> : c \in BagToSet(failedChapters)}
                                   |-> CopiesIn(l[2], failedChapters)]]
            /\ IF failedPages = EmptyBag
               THEN /\ mainPc' = "returned"
                    /\ UNCHANGED failedPages
               ELSE /\ mainPc' = "raised"
                    /\ \E id \in BagToSet(failedPages) :
                          failedPages' = failedPages (-) SetToBag({id})
    /\ UNCHANGED <<config, lastSave, disk, extPc, isCrawling, killEvent, manga,
                   endEvent, queues, chapterThreads, pageThreads>>

(***************************************************************************)
(* stop() called by another thread while crawl() runs.                     *)
(***************************************************************************)
ExternalStop ==
    /\ environment.canceller \in {"stop", "both"}
    /\ extPc = "idle"
    /\ mainPc \notin {"crawl", "returned", "raised"}
    /\ IF isCrawling
       THEN /\ isCrawling' = FALSE
            /\ killEvent' = TRUE
            /\ extPc' = "join"
       ELSE /\ extPc' = "done"
            /\ UNCHANGED <<isCrawling, killEvent>>
    /\ UNCHANGED <<config, lastSave, disk, mainPc, failedChapters, failedPages,
                   report, manga, endEvent, queues, chapterThreads, pageThreads,
                   log>>

ExternalStopJoin ==
    /\ extPc = "join"
    /\ AllThreadsDone
    /\ extPc' = "done"
    /\ UNCHANGED <<config, lastSave, disk, mainPc, session, manga, endEvent,
                   queues, chapterThreads, pageThreads, log>>

(***************************************************************************)
(* chapterWorker and processChapter, for a chapter thread in state t.      *)
(***************************************************************************)
\* Lines 261-266: while not chapterQueue.empty(), and the test of the kill
\* event that follows it.
ChapterLoop(t) ==
    /\ t.pc = "loop"
    /\ chapterThreads' = Step(chapterThreads, t,
                              [t EXCEPT !.pc = IF chapterQueue # <<>> /\ ~killEvent
                                               THEN "get" ELSE "done"])
    /\ UNCHANGED <<config, lastSave, disk, mainPc, extPc, session, manga,
                   endEvent, queues, pageThreads, log>>

\* A Queue.get() that hands out the first item and leaves it on the queue.
GetLeavesItem(queue) == queue

\* Queue.get(), lines 269 and 355: the queue once its first item has been
\* handed to the caller.
Get(queue) == Tail(queue)

\* Line 269: chapterQueue.get(), which blocks while the queue is empty.
ChapterGet(t) ==
    /\ t.pc = "get"
    /\ chapterQueue # <<>>
    /\ chapterQueue' = Get(chapterQueue)
    /\ chapterThreads' = Step(chapterThreads, t,
                              [t EXCEPT !.pc = "process", !.chapter = Head(chapterQueue)])
    /\ UNCHANGED <<config, lastSave, disk, mainPc, extPc, session, manga,
                   endEvent, pageQueue, enqueued, pageThreads, log>>

\* Chapter.fetch / updateWithSoup on success, on a site with these image URLs.
FetchedChapterFrom(c, site) == [c EXCEPT !.title = GetTitle(c.num), !.pages = GetPages(site)]

FetchedChapter(c) == FetchedChapterFrom(c, imageUrlOf)

\* A processChapter that fetches every chapter it is given.
NeedsFetchAlways(c) == TRUE

\* processChapter, line 304: whether the chapter is fetched.
NeedsFetch(c) == Len(c.pages) = 0 \/ c.title = None

\* A processChapter whose except clause leaves chapterReady true.
AfterFailedFetchReady == "put"

\* processChapter, lines 312 and 319: chapterReady = False in the except
\* clause, so the loop over the pages and the save are passed over.
AfterFailedFetch == "after"

\* processChapter, lines 296-317: skip, fetch (which succeeds or raises), or
\* reuse the pages the chapter has.
ProcessChapter(t) ==
    LET ci == t.chapter
        c  == manga.chapters[ci]
    IN
    /\ t.pc = "process"
    /\ IF ChapterIsDownloaded(c)
       THEN /\ chapterThreads' = Step(chapterThreads, t, [t EXCEPT !.pc = "after"])
            /\ UNCHANGED <<manga, failedChapters, log>>
       ELSE IF NeedsFetch(c)
       THEN /\ \E ok \in BOOLEAN :
                  IF ok
                  THEN /\ log' = [log EXCEPT !.chapter = @ + 1]
                       /\ manga' = [manga EXCEPT !.chapters[ci] = FetchedChapter(c)]
                       /\ chapterThreads' = Step(chapterThreads, t,
                                                 [t EXCEPT !.pc = "put", !.idx = 1])
                       /\ UNCHANGED failedChapters
                  ELSE /\ log' = [log EXCEPT !.chapter = @ + 1,
                                               !.raised = @ \cup {ci}]
                       /\ failedChapters' = failedChapters (+) SetToBag({ci})
                       /\ chapterThreads' = Step(chapterThreads, t,
                                                 [t EXCEPT !.pc = AfterFailedFetch,
                                                           !.idx = 1])
                       /\ UNCHANGED manga
       ELSE /\ chapterThreads' = Step(chapterThreads, t,
                                      [t EXCEPT !.pc = "put", !.idx = 1])
            /\ UNCHANGED <<manga, failedChapters, log>>
    /\ UNCHANGED <<config, lastSave, disk, mainPc, extPc, isCrawling, killEvent,
                   failedPages, report, endEvent, queues, pageThreads>>

\* A queue that puts the new item in front of the others.
PutInFront(queue, item) == <<item>> \o queue

\* Queue.put(), line 326: the queue with the item behind the others.
Put(queue, item) == Append(queue, item)

\* processChapter, lines 321-329: one iteration of the loop over the pages;
\* when the loop ends, or breaks on the kill event, self.saveManga().
PutPage(t) ==
    LET ci == t.chapter
        i  == t.idx
    IN
    /\ t.pc = "put"
    /\ IF i > Len(manga.chapters[ci].pages) \/ killEvent
       THEN /\ SaveManga
            /\ chapterThreads' = Step(chapterThreads, t, [t EXCEPT !.pc = "after"])
            /\ UNCHANGED <<pageQueue, enqueued>>
       ELSE /\ pageQueue' = Put(pageQueue, <<ci, i>>)
            /\ enqueued' = enqueued (+) SetToBag({<<ci, i>>})
            /\ chapterThreads' = Step(chapterThreads, t, [t EXCEPT !.idx = i + 1])
            /\ NoSave
    /\ UNCHANGED <<config, mainPc, extPc, session, manga,
                   endEvent, chapterQueue, pageThreads>>

\* Lines 275-279: whether the worker sets the end event after its chapter.
SetsEndEvent == chapterQueue = <<>>

\* Lines 275-282
ChapterAfter(t) ==
    /\ t.pc = "after"
    /\ endEvent' = (endEvent \/ SetsEndEvent)
    /\ chapterThreads' = Step(chapterThreads, t,
                              [t EXCEPT !.pc = "loop", !.chapter = 0, !.idx = 0])
    /\ UNCHANGED <<config, lastSave, disk, mainPc, extPc, session, manga,
                   queues, pageThreads, log>>

(***************************************************************************)
(* pageWorker and processPage, for a page thread in state t.               *)
(***************************************************************************)
\* Line 346: while not self._endEvent.is_set() or not pageQueue.empty()
PageLoopCondition == ~endEvent \/ pageQueue # <<>>

\* Lines 346-351: the loop condition, and the test of the kill event that
\* follows it.
PageLoop(t) ==
    /\ t.pc = "loop"
    /\ pageThreads' = Step(pageThreads, t,
                           [t EXCEPT !.pc = IF PageLoopCondition /\ ~killEvent
                                            THEN "empty" ELSE "done"])
    /\ UNCHANGED <<config, lastSave, disk, mainPc, extPc, session, manga,
                   endEvent, queues, chapterThreads, log>>

\* Line 354: if not pageQueue.empty()
PageEmptyCheck(t) ==
    /\ t.pc = "empty"
    /\ pageThreads' = Step(pageThreads, t,
                           [t EXCEPT !.pc = IF pageQueue # <<>> THEN "get" ELSE "loop"])
    /\ UNCHANGED <<config, lastSave, disk, mainPc, extPc, session, manga,
                   endEvent, queues, chapterThreads, log>>

\* Line 355 and processPage, lines 367-371: pageQueue.get(), which blocks
\* while the queue is empty; a downloaded page is marked and skipped.
PageGet(t) ==
    LET id == Head(pageQueue)
        p  == manga.chapters[id[1]].pages[id[2]]
    IN
    /\ t.pc = "get"
    /\ pageQueue # <<>>
    /\ pageQueue' = Get(pageQueue)
    /\ IF p.isDownloaded
       THEN /\ manga' = [manga EXCEPT !.chapters[id[1]].pages[id[2]].isProcessed = TRUE]
            /\ pageThreads' = Step(pageThreads, t, [t EXCEPT !.pc = "loop"])
       ELSE /\ manga' = manga
            /\ pageThreads' = Step(pageThreads, t,
                                   [t EXCEPT !.pc = "download", !.page = id])
    /\ UNCHANGED <<config, lastSave, disk, mainPc, extPc, session,
                   endEvent, chapterQueue, enqueued, chapterThreads, log>>

\* A downloadImage that records the output path before the download returns.
DownloadImageRecordsPathFirst(m, c, p, err) ==
    IF p.imageUrl = None THEN [page |-> p, raised |-> TRUE, called |-> FALSE]
    ELSE LET named == [p EXCEPT !.filename = ZeroPad(p.num, 4),
                                !.filePath = DirectoryName(m.title) \o <<"/">>
                                             \o ZeroPad(p.num, 4)]
         IN  [page |-> IF err THEN named ELSE [named EXCEPT !.isDownloaded = TRUE],
              raised |-> err, called |-> TRUE]

\* A downloadImage that sets isDownloaded before the download returns.
DownloadImageMarksFirst(m, c, p, err) ==
    IF p.imageUrl = None THEN [page |-> p, raised |-> TRUE, called |-> FALSE]
    ELSE [page |-> [p EXCEPT !.isDownloaded = TRUE], raised |-> err, called |-> TRUE]

\* Page.downloadImage: the page after the call, whether the call raised and
\* whether it called Downloader.downloadImage, given whether that returns
\* an error.
DownloadImage(m, c, p, err) ==
    IF p.imageUrl = None THEN [page |-> p, raised |-> TRUE, called |-> FALSE]
    ELSE IF p.filename = None /\ GetImageFilename(p) = <<"raise">>
    THEN [page |-> p, raised |-> TRUE, called |-> FALSE]
    ELSE LET named == IF p.filename = None
                      THEN [p EXCEPT !.filename = GetImageFilename(p)] ELSE p
         IN  IF DirectoryName(m.title) = None \/ DirectoryName(c.title) = None
             THEN [page |-> named, raised |-> TRUE, called |-> FALSE]
             ELSE IF err
             THEN [page |-> named, raised |-> TRUE, called |-> TRUE]
             ELSE [page |-> [named EXCEPT
                               !.filePath = DirectoryName(m.title) \o <<"/">>
                                            \o DirectoryName(c.title) \o <<"/">>
                                            \o named.filename,
                               !.isDownloaded = TRUE],
                   raised |-> FALSE, called |-> TRUE]

\* A processPage that forgets the image URL of the page it has processed.
ProcessedForgetsUrl(page) == [page EXCEPT !.isProcessed = TRUE, !.imageUrl = None]

\* A processPage that leaves isProcessed as it was.
ProcessedNotMarked(page) == page

\* processPage, line 385: page.isProcessed = True
Processed(page) == [page EXCEPT !.isProcessed = TRUE]

\* processPage, lines 376-385: the download returns or raises, the failure
\* is recorded, and the page is marked processed.
ProcessPage(t) ==
    LET id == t.page
        c  == manga.chapters[id[1]]
        p  == c.pages[id[2]]
    IN
    /\ t.pc = "download"
    /\ \E err \in BOOLEAN :
          LET outcome == DownloadImage(manga, c, p, err)
          IN  /\ manga' = [manga EXCEPT
                             !.chapters[id[1]].pages[id[2]] = Processed(outcome.page)]
              /\ failedPages' = IF outcome.raised
                                THEN failedPages (+) SetToBag({id}) ELSE failedPages
              /\ log' = [log EXCEPT
                           !.image = IF outcome.called THEN @ + 1 ELSE @,
                           !.downloads = IF outcome.raised THEN @
                                         ELSE @ (+) SetToBag({<<c.num, p.num>>})]
    /\ pageThreads' = Step(pageThreads, t, [t EXCEPT !.pc = "check"])
    /\ UNCHANGED <<config, lastSave, disk, mainPc, extPc, isCrawling, killEvent,
                   failedChapters, report, endEvent, queues, chapterThreads>>

\* processPage, lines 391-393: if page.chapter.isProcessed: self.saveManga()
PageChapterCheck(t) ==
    /\ t.pc = "check"
    /\ IF ChapterIsProcessed(manga.chapters[t.page[1]])
       THEN SaveManga
       ELSE NoSave
    /\ pageThreads' = Step(pageThreads, t, [t EXCEPT !.pc = "loop", !.page = <<>>])
    /\ UNCHANGED <<config, mainPc, extPc, session, manga,
                   endEvent, queues, chapterThreads>>

(***************************************************************************)
(* updateFromCache on its own: any fresh list and any cached list of       *)
(* chapters, each with numbers that are unique within it, in any order.    *)
(***************************************************************************)
MergeNums == 1..MaxNum

UniqueSeqs(S) ==
    {q \in UNION {[1..n -> S] : n \in 0..Cardinality(S)} :
        \A i, j \in DOMAIN q : i # j => q[i] # q[j]}

\* A chapter as the cache holds it: fetched, with a page that is downloaded
\* and a page that is not, and an older URL; or never fetched.
CachedChapter(n, variant) ==
    IF variant = 1
    THEN NewChapter(n, <<"o">> \o Digits(n), GetTitle(n),
                    <<NewPage(1, PageUrl(1), ValidSite[1],
                              <<"d", "/", "0", "0", "0", "1", ".", "j", "p", "g">>,
                              <<"0", "0", "0", "1", ".", "j", "p", "g">>, TRUE),
                      NewPage(2, PageUrl(2), None, None, None, FALSE)>>)
    ELSE NewChapter(n, ChapterUrl(n), None, <<>>)

InitMerge ==
    /\ \E f \in UniqueSeqs(MergeNums), c \in UniqueSeqs(MergeNums),
          v \in [MergeNums -> {1, 2}] :
          mergeInput =
             [fresh  |-> [url |-> MangaUrl, title |-> RemoteTitle,
                          chapters |-> [i \in DOMAIN f |-> SkeletonChapter(f[i])]],
              cached |-> [url |-> MangaUrl, title |-> <<"o", "l", "d">>,
                          chapters |-> [i \in DOMAIN c |-> CachedChapter(c[i], v[c[i]])]]]
    /\ mergeOutput = NoManga
    /\ chapterThreadCount = 1
    /\ pageThreadCount = 1
    /\ imageUrlOf = ValidSite
    /\ environment = [canceller |-> "interrupt", saveMayFail |-> FALSE, listing |-> "ok"]
    /\ disk = NoCache
    /\ diskAtStart = disk
    /\ InitSession

Merge ==
    /\ mergeOutput = NoManga
    /\ mergeOutput' = UpdateFromCache(mergeInput.fresh, mergeInput.cached)
    /\ UNCHANGED <<chapterThreadCount, pageThreadCount, imageUrlOf, environment, disk,
                   diskAtStart, mergeInput, mainPc, extPc, session, manga, endEvent,
                   queues, chapterThreads, pageThreads, log,
                   savers, cacheLock, lastSave>>

SpecMerge == InitMerge /\ [][Merge]_vars

(***************************************************************************)
(* updateFromCache over objects.  Each manga, chapter and page is an       *)
(* object with a name (obj): "fresh" and "cached" for the two mangas,      *)
(* <<manga, i>> for the i-th chapter a manga was made with, and            *)
(* <<manga, i, k>> for the k-th page that chapter was made with.  A        *)
(* chapter refers to its manga (parent) and has a copy of its title        *)
(* (mangaTitle); a page refers to its chapter (parent) and has copies of   *)
(* the number of the chapter and of the title of the manga.                *)
(***************************************************************************)
\* Page.__init__, lines 39-41
PageObject(p, chapterObj, k, chapterNum, mangaTitle) ==
    [obj |-> Append(chapterObj, k), parent |-> chapterObj,
     chapterNum |-> chapterNum, mangaTitle |-> mangaTitle,
     num |-> p.num, pageUrl |-> p.pageUrl, imageUrl |-> p.imageUrl,
     filePath |-> p.filePath, filename |-> p.filename,
     isDownloaded |-> p.isDownloaded, isProcessed |-> p.isProcessed]

\* Chapter.__init__, lines 33-35, and Chapter.fromJson
ChapterObject(c, mangaObj, i, mangaTitle) ==
    [obj |-> <<mangaObj, i>>, parent |-> mangaObj, mangaTitle |-> mangaTitle,
     num |-> c.num, url |-> c.url, title |-> c.title,
     pages |-> [k \in DOMAIN c.pages |->
                  PageObject(c.pages[k], <<mangaObj, i>>, k, c.num, mangaTitle)]]

\* Manga.fetch / Manga.fromJson: the manga and the objects it is made with.
MangaObject(m, mangaObj) ==
    [obj |-> mangaObj, url |-> m.url, title |-> m.title,
     chapters |-> [i \in DOMAIN m.chapters |->
                     ChapterObject(m.chapters[i], mangaObj, i, m.title)]]

\* Chapter.setParent
ChapterSetParent(c, m) == [c EXCEPT !.parent = m.obj, !.mangaTitle = m.title]

\* An updateFromCache that does not call page.setParent.
PageSetParentSkipped(pg, c, m) == pg

\* Page.setParent, called with a chapter whose manga is m.
PageSetParent(pg, c, m) ==
    [pg EXCEPT !.parent = c.obj, !.mangaTitle = m.title, !.chapterNum = c.num]

\* updateFromCache, lines 269-273
SetParents(m) ==
    [m EXCEPT !.chapters =
        [i \in DOMAIN m.chapters |->
            LET c == ChapterSetParent(m.chapters[i], m)
            IN  [c EXCEPT !.pages = [k \in DOMAIN c.pages |->
                                       PageSetParent(c.pages[k], c, m)]]]]

InitMergeObjects ==
    /\ \E f \in UniqueSeqs(MergeNums), c \in UniqueSeqs(MergeNums),
          v \in [MergeNums -> {1, 2}] :
          mergeInput =
             [fresh  |-> MangaObject(
                            [url |-> MangaUrl, title |-> RemoteTitle,
                             chapters |-> [i \in DOMAIN f |-> SkeletonChapter(f[i])]],
                            "fresh"),
              cached |-> MangaObject(
                            [url |-> MangaUrl, title |-> <<"o", "l", "d">>,
                             chapters |-> [i \in DOMAIN c |->
                                             CachedChapter(c[i], v[c[i]])]],
                            "cached")]
    /\ mergeOutput = NoManga
    /\ chapterThreadCount = 1
    /\ pageThreadCount = 1
    /\ imageUrlOf = ValidSite
    /\ environment = [canceller |-> "interrupt", saveMayFail |-> FALSE, listing |-> "ok"]
    /\ disk = NoCache
    /\ diskAtStart = disk
    /\ InitSession

\* updateFromCache, lines 243-273
MergeObjects ==
    /\ mergeOutput = NoManga
    /\ mergeOutput' = SetParents(UpdateFromCache(mergeInput.fresh, mergeInput.cached))
    /\ UNCHANGED <<chapterThreadCount, pageThreadCount, imageUrlOf, environment, disk,
                   diskAtStart, mergeInput, mainPc, extPc, session, manga, endEvent,
                   queues, chapterThreads, pageThreads, log,
                   savers, cacheLock, lastSave>>

SpecMergeObjects == InitMergeObjects /\ [][MergeObjects]_vars

(***************************************************************************)
(* Manga.save on its own, step by step: threads that call save() of the    *)
(* same manga, again and again, while the tree changes between the calls.  *)
(* While a file is open for writing, disk holds the parts written to it,   *)
(* each with the thread that wrote it.                                     *)
(***************************************************************************)
Savers == 1..NumSavers

\* The trees the manga goes through: as fetchManga leaves it when fetch()
\* raised, as fetched, and with its first chapter fetched.
SavedMangas ==
    {NewManga(MangaUrl), FetchedManga,
     [FetchedManga EXCEPT !.chapters[1] = FetchedChapterFrom(GetChapters[1], ValidSite)]}

\* The file of a writer whose open() has truncated it.
OpenFile(chunks) == [kind |-> "open", chunks |-> chunks]

\* The file when a writer closes it: the serialization of its tree when
\* the file holds its two parts and nothing else.
ClosedFile(i, tree) ==
    IF disk.chunks \o <<<<i, 2>>>> = <<<<i, 1>>, <<i, 2>>>> THEN ToDict(tree) ELSE CorruptCache

SaverStep(i, pc) == savers' = [savers EXCEPT ![i].pc = pc]

SaveFrame ==
    UNCHANGED <<chapterThreadCount, pageThreadCount, imageUrlOf, environment,
                diskAtStart, mergeInput, mergeOutput, mainPc, extPc, session,
                endEvent, queues, chapterThreads, pageThreads, log>>

InitSave ==
    /\ savers = [i \in Savers |-> [pc |-> "idle", tree |-> NoManga]]
    /\ cacheLock = FALSE
    /\ lastSave = "none"
    /\ manga \in SavedMangas
    /\ chapterThreadCount = 1
    /\ pageThreadCount = 1
    /\ imageUrlOf = ValidSite
    /\ environment = [canceller |-> "interrupt", saveMayFail |-> TRUE, listing |-> "ok"]
    /\ disk = NoCache
    /\ diskAtStart = disk
    /\ mergeInput = NoManga
    /\ mergeOutput = NoManga
    /\ mainPc = "wait"
    /\ extPc = "idle"
    /\ isCrawling = TRUE
    /\ killEvent = FALSE
    /\ endEvent = FALSE
    /\ chapterQueue = <<>>
    /\ pageQueue = <<>>
    /\ failedChapters = EmptyBag
    /\ failedPages = EmptyBag
    /\ chapterThreads = EmptyBag
    /\ pageThreads = EmptyBag
    /\ enqueued = EmptyBag
    /\ log = [manga |-> 0, chapter |-> 0, image |-> 0, raised |-> {},
              saveRaised |-> 0, fetchRaised |-> FALSE, lines |-> EmptyBag,
              downloads |-> EmptyBag, runs |-> 1]
    /\ report = "none"

\* A worker changes the tree (outside save, without the lock).
MutateTree ==
    /\ manga' \in SavedMangas \ {manga}
    /\ UNCHANGED <<disk, savers, cacheLock, lastSave>>
    /\ SaveFrame

\* A thread calls save().
SaveCall(i) ==
    /\ savers[i].pc = "idle"
    /\ SaverStep(i, "acquire")
    /\ UNCHANGED <<disk, manga, cacheLock, lastSave>>
    /\ SaveFrame

\* A save() that does not wait for the lock.
AcquireAtOnce == TRUE

\* Line 290: whether acquire() returns.
CanAcquire == ~cacheLock

\* Line 290: self._cacheLock.acquire()
SaveAcquire(i) ==
    /\ savers[i].pc = "acquire"
    /\ CanAcquire
    /\ cacheLock' = TRUE
    /\ SaverStep(i, "locked")
    /\ UNCHANGED <<disk, manga, lastSave>>
    /\ SaveFrame

\* Lines 293-301: directoryName is None, or makedirs or open raises; or
\* open(filePath, 'w') truncates the file.
SaveOpen(i) ==
    /\ savers[i].pc = "locked"
    /\ \E ok \in BOOLEAN :
          IF DirectoryName(manga.title) = None \/ ~ok
          THEN /\ SaverStep(i, "except")
               /\ UNCHANGED disk
          ELSE /\ SaverStep(i, "opened")
               /\ disk' = OpenFile(<<>>)
    /\ UNCHANGED <<manga, cacheLock, lastSave>>
    /\ SaveFrame

\* Lines 302-303: json.dumps(self.toDict()) and the first part of the write,
\* or an error of either.
SaveWrite(i) ==
    /\ savers[i].pc = "opened"
    /\ \E ok \in BOOLEAN :
          IF ok
          THEN /\ savers' = [savers EXCEPT ![i] = [pc |-> "half", tree |-> manga]]
               /\ disk' = OpenFile(IF disk.kind = "open"
                                   THEN Append(disk.chunks, <<i, 1>>) ELSE <<<<i, 1>>>>)
          ELSE /\ SaverStep(i, "except")
               /\ UNCHANGED disk
    /\ UNCHANGED <<manga, cacheLock, lastSave>>
    /\ SaveFrame

\* Line 303 and the end of the with block: the rest of the write, and the
\* file is closed.
SaveClose(i) ==
    /\ savers[i].pc = "half"
    /\ disk' = IF disk.kind = "open" THEN ClosedFile(i, savers[i].tree) ELSE CorruptCache
    /\ SaverStep(i, "written")
    /\ UNCHANGED <<manga, cacheLock, lastSave>>
    /\ SaveFrame

\* Lines 308-309: the lock is released and save() returns.
SaveReturn(i) ==
    /\ savers[i].pc = "written"
    /\ cacheLock' = FALSE
    /\ lastSave' = "returned"
    /\ savers' = [savers EXCEPT ![i] = [pc |-> "idle", tree |-> NoManga]]
    /\ UNCHANGED <<disk, manga>>
    /\ SaveFrame

\* A save() whose except clause raises again without releasing the lock.
LockAfterRaiseHeld == TRUE

\* Lines 305-306: self._cacheLock.release() in the except clause.
LockAfterRaise == FALSE

\* Lines 305-307: the lock is released and the error is raised again.
SaveRaise(i) ==
    /\ savers[i].pc = "except"
    /\ cacheLock' = LockAfterRaise
    /\ lastSave' = "raised"
    /\ savers' = [savers EXCEPT ![i] = [pc |-> "idle", tree |-> NoManga]]
    /\ UNCHANGED <<disk, manga>>
    /\ SaveFrame

Save(i) ==
    \/ SaveCall(i)
    \/ SaveAcquire(i)
    \/ SaveOpen(i)
    \/ SaveWrite(i)
    \/ SaveClose(i)
    \/ SaveReturn(i)
    \/ SaveRaise(i)

NextSave == MutateTree \/ \E i \in Savers : Save(i)

SpecSave == InitSave /\ [][NextSave]_vars

(***************************************************************************)
(* A run of the program that finds the cache file of an earlier run.       *)
(***************************************************************************)
\* A chapter after its fetch and the download of the pages in `done`; the
\* other pages after a download that ended in a transport error.
SettledChapter(c, done) ==
    LET f == FetchedChapterFrom(c, ValidSite)
    IN  [f EXCEPT !.pages = [i \in DOMAIN f.pages |->
            DownloadImage(FetchedManga, f, f.pages[i], i \notin done).page]]

\* The cache file after a run in which every download succeeded.
WarmCache ==
    ToDict([FetchedManga EXCEPT !.chapters =
        [i \in DOMAIN GetChapters |-> SettledChapter(GetChapters[i], 1..NumPages)]])

\* The cache file after a run in which the last page of the last chapter
\* failed to download.
PartialCache ==
    ToDict([FetchedManga EXCEPT !.chapters =
        [i \in DOMAIN GetChapters |->
            SettledChapter(GetChapters[i],
                           IF i = NumChapters THEN 1..(NumPages - 1) ELSE 1..NumPages)]])

\* The cache file after a run that was cancelled when the first chapter was
\* downloaded and the other chapters were not yet fetched.
HalfCache ==
    ToDict([FetchedManga EXCEPT !.chapters =
        [i \in DOMAIN GetChapters |->
            IF i = 1 THEN SettledChapter(GetChapters[i], 1..NumPages) ELSE GetChapters[i]]])

InitResume ==
    /\ chapterThreadCount \in 1..(MaxThreads - 1)
    /\ pageThreadCount \in 1..(MaxThreads - chapterThreadCount)
    /\ imageUrlOf = ValidSite
    /\ environment \in [canceller : {"interrupt", "stop"}, saveMayFail : {FALSE},
                        listing : {"ok"}]
    /\ disk \in {WarmCache, PartialCache, HalfCache}
    /\ diskAtStart = disk
    /\ mergeInput = NoManga
    /\ mergeOutput = NoManga
    /\ InitSession

ChapterWorker(t) ==
    \/ ChapterLoop(t)
    \/ ChapterGet(t)
    \/ ProcessChapter(t)
    \/ PutPage(t)
    \/ ChapterAfter(t)

PageWorker(t) ==
    \/ PageLoop(t)
    \/ PageEmptyCheck(t)
    \/ PageGet(t)
    \/ ProcessPage(t)
    \/ PageChapterCheck(t)

Main ==
    \/ Crawl
    \/ FetchManga
    \/ StartThreads
    \/ WaitForCompletion
    \/ JoinThreads
    \/ FinalSave
    \/ KeyboardInterrupt
    \/ Stop
    \/ StopJoin
    \/ DisplayUnsuccessfulItems

Next ==
    \/ Main
    \/ ExternalStop
    \/ ExternalStopJoin
    \/ \E t \in BagToSet(chapterThreads) : ChapterWorker(t)
    \/ \E t \in BagToSet(pageThreads) : PageWorker(t)

Spec == Init /\ [][Next]_vars

(***************************************************************************)
(* A session that may be cancelled twice: by stop() called by another      *)
(* thread and by Ctrl+C in the thread of crawl().                          *)
(***************************************************************************)
InitCancelTwice ==
    /\ chapterThreadCount \in 1..(MaxThreads - 1)
    /\ pageThreadCount \in 1..(MaxThreads - chapterThreadCount)
    /\ imageUrlOf = ValidSite
    /\ environment = [canceller |-> "both", saveMayFail |-> FALSE, listing |-> "ok"]
    /\ disk = NoCache
    /\ diskAtStart = disk
    /\ mergeInput = NoManga
    /\ mergeOutput = NoManga
    /\ InitSession

SpecCancelTwice == InitCancelTwice /\ [][Next]_vars

(***************************************************************************)
(* The program run again: when crawl() is over and every thread is gone,   *)
(* a new run starts over the cache file the last one left.                 *)
(***************************************************************************)
Rerun ==
    /\ mainPc \in {"returned", "raised"}
    /\ extPc \in {"idle", "done"}
    /\ AllThreadsDone
    /\ log.runs < MaxRuns
    /\ diskAtStart' = disk
    /\ mainPc' = "crawl"
    /\ extPc' = "idle"
    /\ isCrawling' = FALSE
    /\ manga' = NoManga
    /\ killEvent' = FALSE
    /\ endEvent' = FALSE
    /\ chapterQueue' = <<>>
    /\ pageQueue' = <<>>
    /\ failedChapters' = EmptyBag
    /\ failedPages' = EmptyBag
    /\ chapterThreads' = EmptyBag
    /\ pageThreads' = EmptyBag
    /\ enqueued' = EmptyBag
    /\ report' = "none"
    /\ lastSave' = "none"
    /\ log' = [manga |-> 0, chapter |-> 0, image |-> 0, raised |-> {},
               saveRaised |-> 0, fetchRaised |-> FALSE, lines |-> EmptyBag,
               downloads |-> log.downloads, runs |-> log.runs + 1]
    /\ UNCHANGED <<chapterThreadCount, pageThreadCount, imageUrlOf, environment, disk,
                   mergeInput, mergeOutput, savers, cacheLock>>

InitRerun ==
    /\ chapterThreadCount = 1
    /\ pageThreadCount = 1
    /\ imageUrlOf = ValidSite
    /\ environment \in [canceller : {"interrupt", "stop"}, saveMayFail : {FALSE},
                        listing : {"ok"}]
    /\ disk = NoCache
    /\ diskAtStart = disk
    /\ mergeInput = NoManga
    /\ mergeOutput = NoManga
    /\ InitSession

NextRerun == Next \/ Rerun

SpecRerun == InitRerun /\ [][NextRerun]_vars

(***************************************************************************)
(* A session in which any call of Manga.save may raise (the directory      *)
(* cannot be made, the file cannot be opened or written).                  *)
(***************************************************************************)
InitSaveFail ==
    /\ chapterThreadCount = 1
    /\ pageThreadCount = 1
    /\ imageUrlOf = ValidSite
    /\ environment \in [canceller : {"interrupt", "stop"}, saveMayFail : {TRUE},
                        listing : {"ok"}]
    /\ disk = NoCache
    /\ diskAtStart = disk
    /\ mergeInput = NoManga
    /\ mergeOutput = NoManga
    /\ InitSession

SpecSaveFail == InitSaveFail /\ [][Next]_vars

(***************************************************************************)
(* A session that finds no cache file, or a cache file that cannot be      *)
(* parsed.                                                                 *)
(***************************************************************************)
InitCold ==
    /\ chapterThreadCount \in 1..(MaxThreads - 1)
    /\ pageThreadCount \in 1..(MaxThreads - chapterThreadCount)
    /\ imageUrlOf = ValidSite
    /\ environment \in [canceller : {"interrupt", "stop"}, saveMayFail : {FALSE},
                        listing : {"ok"}]
    /\ disk \in {NoCache, CorruptCache}
    /\ diskAtStart = disk
    /\ mergeInput = NoManga
    /\ mergeOutput = NoManga
    /\ InitSession

SpecCold == InitCold /\ [][Next]_vars

(***************************************************************************)
(* The download of one page on its own: a page of any of these numbers     *)
(* and image URLs, in the hands of a page worker.                          *)
(***************************************************************************)
PageNums == {1, 7, 42, 999, 1000, 12345}

ImageUrls ==
    {None,
     <<"i", ".", "j", "p", "e", "g">>,
     <<"i", ".", "p", "n", "g">>,
     <<"i", ".", "j", "p", "g">>,
     <<"h", ".", "i", ".", "p", "n", "g">>,
     <<".", "j", "p", "g">>,
     <<"i", ".", "g", "i", "f">>,
     <<"i", ".", "J", "P", "G">>,
     <<"i", ".", "p", "n", "g", "?", "w">>,
     <<"i", ".", "j", "p", "g", "/">>,
     <<"i", "p", "n", "g">>,
     <<"i", ".">>,
     <<"i">>}

\* A manga of one fetched chapter with this one page.
MangaOfPage(p) ==
    [FetchedManga EXCEPT !.chapters =
        <<[FetchedChapterFrom(GetChapters[1], ValidSite) EXCEPT !.pages = <<p>>]>>]

InitFilename ==
    /\ chapterThreadCount = 1
    /\ pageThreadCount = 1
    /\ imageUrlOf = ValidSite
    /\ environment = [canceller |-> "stop", saveMayFail |-> FALSE, listing |-> "ok"]
    /\ disk = NoCache
    /\ diskAtStart = disk
    /\ mergeInput = NoManga
    /\ mergeOutput = NoManga
    /\ mainPc = "wait"
    /\ extPc = "idle"
    /\ isCrawling = TRUE
    /\ \E n \in PageNums, u \in ImageUrls :
          manga = MangaOfPage(NewPage(n, PageUrl(n), u, None, None, FALSE))
    /\ killEvent = FALSE
    /\ endEvent = TRUE
    /\ chapterQueue = <<>>
    /\ pageQueue = <<>>
    /\ failedChapters = EmptyBag
    /\ failedPages = EmptyBag
    /\ chapterThreads = SetToBag({[pc |-> "done", chapter |-> 1, idx |-> 2]})
    /\ pageThreads = SetToBag({[pc |-> "download", page |-> <<1, 1>>]})
    /\ enqueued = SetToBag({<<1, 1>>})
    /\ log = [manga |-> 1, chapter |-> 1, image |-> 0, raised |-> {},
              saveRaised |-> 0, fetchRaised |-> FALSE, lines |-> EmptyBag,
              downloads |-> EmptyBag, runs |-> 1]
    /\ report = "none"
    /\ savers = <<>>
    /\ cacheLock = FALSE
    /\ lastSave = "returned"

NextFilename == \E t \in BagToSet(pageThreads) : ProcessPage(t) \/ PageChapterCheck(t)

SpecFilename == InitFilename /\ [][NextFilename]_vars

SpecResume == InitResume /\ [][Next]_vars

(***************************************************************************)
(* State functions used by the properties.                                 *)
(***************************************************************************)
\* The started threads of the current manga exist (startThreads has run).
ThreadsStarted == chapterThreads # EmptyBag /\ pageThreads # EmptyBag

\* The page a queue entry stands for.
PageAt(id) == manga.chapters[id[1]].pages[id[2]]

\* The pages some page thread has taken from pageQueue.
PoppedPages == {id \in BagToSet(enqueued) : \A k \in DOMAIN pageQueue : pageQueue[k] # id}

\* A join of stop() or of waitForCompletion returns in this step.
JoinReturns ==
    \/ mainPc = "stopJoin" /\ mainPc' = "display"
    \/ mainPc = "join" /\ mainPc' = "finalSave"
    \/ extPc = "join" /\ extPc' = "done"

(***************************************************************************)
(* The end event and the two pools.                                        *)
(***************************************************************************)
\* C1: in every reachable state in which the end event is set, no chapter
\* thread is still fetching, or enqueuing the pages of, a chapter it has
\* popped (so nothing is put on pageQueue once the event is set).
EndEventMeansNoProducer ==
    endEvent => \A t \in BagToSet(chapterThreads) : t.pc \notin {"process", "put"}

\* C2: without cancellation, when every worker of the manga has exited,
\* pageQueue is empty and every page that was put on it has been processed.
NoPrematureExit ==
    (~killEvent /\ ThreadsStarted /\ AllThreadsDone)
        => /\ pageQueue = <<>>
           /\ \A id \in BagToSet(enqueued) : PageAt(id).isProcessed

\* C5: without cancellation, when every worker has exited and before the
\* failures are displayed, failedChapters holds exactly the chapters whose
\* fetch raised, each once, and every page of every other chapter has been
\* put on pageQueue once and is downloaded or recorded as failed.
ChapterFailureIsolated ==
    (~killEvent /\ ThreadsStarted /\ AllThreadsDone
        /\ mainPc \in {"wait", "join", "finalSave", "display"})
        => /\ failedChapters = SetToBag(log.raised)
           /\ \A ci \in DOMAIN manga.chapters :
                 ci \notin log.raised =>
                    /\ manga.chapters[ci].title # None
                    /\ Len(manga.chapters[ci].pages) = NumPages
                    /\ \A i \in DOMAIN manga.chapters[ci].pages :
                          /\ CopiesIn(<<ci, i>>, enqueued) = 1
                          /\ \/ manga.chapters[ci].pages[i].isDownloaded
                             \/ BagIn(<<ci, i>>, failedPages)

(***************************************************************************)
(* updateFromCache.                                                        *)
(***************************************************************************)
\* The chapter numbers of a list of chapters.
NumsOf(chapters) == {chapters[i].num : i \in DOMAIN chapters}

\* C3: after updateFromCache the chapters of the fresh manga are in strictly
\* ascending order of their numbers (so each number is there once), and their
\* numbers are exactly those of the fresh list and of the cached list.
MergeCompleteness ==
    mergeOutput # NoManga =>
        LET out == mergeOutput.chapters
        IN  /\ \A i \in 1..(Len(out) - 1) : out[i].num < out[i + 1].num
            /\ NumsOf(out) = NumsOf(mergeInput.fresh.chapters)
                               \cup NumsOf(mergeInput.cached.chapters)

\* C3, its case: a merge of lists with a number only the fresh list has, a
\* number only the cache has and a number both have, the cache out of order.
MergeOfOverlappingLists ==
    /\ mergeOutput # NoManga
    /\ LET f == NumsOf(mergeInput.fresh.chapters)
           c == NumsOf(mergeInput.cached.chapters)
       IN  /\ f \ c # {}
           /\ c \ f # {}
           /\ f \cap c # {}
           /\ \E i \in 1..(Len(mergeInput.cached.chapters) - 1) :
                 mergeInput.cached.chapters[i].num > mergeInput.cached.chapters[i + 1].num
           /\ Len(mergeOutput.chapters) = Cardinality(f \cup c)

\* C4: after updateFromCache, a chapter whose number is in both lists has the
\* url, the title and the pages (their flags, file names and paths with them)
\* of the cached chapter of that number.
MergeAuthority ==
    mergeOutput # NoManga =>
        \A i \in DOMAIN mergeInput.fresh.chapters, j \in DOMAIN mergeInput.cached.chapters :
            mergeInput.fresh.chapters[i].num = mergeInput.cached.chapters[j].num =>
                /\ \E k \in DOMAIN mergeOutput.chapters :
                      mergeOutput.chapters[k].num = mergeInput.cached.chapters[j].num
                /\ \A k \in DOMAIN mergeOutput.chapters :
                      mergeOutput.chapters[k].num = mergeInput.cached.chapters[j].num =>
                         /\ mergeOutput.chapters[k].url = mergeInput.cached.chapters[j].url
                         /\ mergeOutput.chapters[k].title = mergeInput.cached.chapters[j].title
                         /\ mergeOutput.chapters[k].pages = mergeInput.cached.chapters[j].pages

\* C4, its case: a merged chapter of a number both lists have, whose cached
\* version differs from the fresh skeleton in url, title and pages and has a
\* downloaded page.
MergeOfCachedChapter ==
    /\ mergeOutput # NoManga
    /\ \E i \in DOMAIN mergeInput.fresh.chapters, j \in DOMAIN mergeInput.cached.chapters,
          k \in DOMAIN mergeOutput.chapters :
          /\ mergeInput.fresh.chapters[i].num = mergeInput.cached.chapters[j].num
          /\ mergeOutput.chapters[k].num = mergeInput.cached.chapters[j].num
          /\ mergeInput.fresh.chapters[i].url # mergeInput.cached.chapters[j].url
          /\ mergeInput.fresh.chapters[i].title # mergeInput.cached.chapters[j].title
          /\ mergeInput.fresh.chapters[i].pages # mergeInput.cached.chapters[j].pages
          /\ \E n \in DOMAIN mergeOutput.chapters[k].pages :
                /\ mergeOutput.chapters[k].pages[n].isDownloaded
                /\ mergeOutput.chapters[k].pages[n].filename # None

(***************************************************************************)
(* Failures of single pages.                                               *)
(***************************************************************************)
\* C6: a page is in failedPages at most once, and a page in it is processed
\* and not downloaded; the step that records a page as failed is the step of
\* the thread that downloads it, which goes on to the end of its iteration
\* with the queue as it was, and changes no other page and no other failure;
\* and a page thread at the end or at the start of an iteration can always
\* take its next step.
PageFailureIsolated ==
    /\ [](\A id \in BagToSet(failedPages) :
             /\ CopiesIn(id, failedPages) = 1
             /\ ~PageAt(id).isDownloaded
             /\ PageAt(id).isProcessed)
    /\ [](\A t \in BagToSet(pageThreads) :
             t.pc \in {"check", "loop", "empty"} => ENABLED PageWorker(t))
    /\ [][\A id \in BagToSet(failedPages') :
             CopiesIn(id, failedPages') > CopiesIn(id, failedPages) =>
                /\ failedPages' = failedPages (+) SetToBag({id})
                /\ BagIn([pc |-> "download", page |-> id], pageThreads)
                /\ pageThreads' = Step(pageThreads, [pc |-> "download", page |-> id],
                                       [pc |-> "check", page |-> id])
                /\ pageQueue' = pageQueue
                /\ failedChapters' = failedChapters
                /\ \A ci \in DOMAIN manga.chapters :
                      \A i \in DOMAIN manga.chapters[ci].pages :
                         <<ci, i>> # id =>
                            manga'.chapters[ci].pages[i] = manga.chapters[ci].pages[i]
         ]_vars

\* C6, its case: the only page thread has recorded the first page it took as
\* failed and has downloaded the next page of the queue.
FailedPageThenDownloadedPage ==
    /\ chapterThreadCount = 1
    /\ pageThreadCount = 1
    /\ BagIn(<<1, 1>>, failedPages)
    /\ ~PageAt(<<1, 1>>).isDownloaded
    /\ PageAt(<<1, 2>>).isDownloaded
    /\ ~BagIn(<<1, 2>>, failedPages)

(***************************************************************************)
(* A run that finds the cache of a run in which every page was downloaded. *)
(***************************************************************************)
\* C7, as stated: a run that starts from the cache of a complete run makes no
\* request at all, and leaves the cache file as it found it.
WarmRunMakesNoRequest ==
    (diskAtStart = WarmCache /\ mainPc = "returned")
        => /\ log.manga = 0 /\ log.chapter = 0 /\ log.image = 0
           /\ disk = diskAtStart

\* C7, amended: a run that starts from the cache of a complete run fetches
\* the page of the manga (once) and nothing else: no chapter is fetched, no
\* image is downloaded, and the cache file is at every moment what it was
\* when the run started.
WarmRunFetchesOnlyTheManga ==
    diskAtStart = WarmCache
        => /\ log.manga <= 1 /\ log.chapter = 0 /\ log.image = 0
           /\ disk = diskAtStart
           /\ enqueued = EmptyBag

\* C7, its case: such a run has fetched the manga, merged it with the cache,
\* run its threads, saved the manga and returned, without cancellation.
WarmRunReturned ==
    /\ diskAtStart = WarmCache
    /\ mainPc = "returned"
    /\ ~killEvent
    /\ log.manga = 1
    /\ Len(manga.chapters) = NumChapters
    /\ ThreadsStarted
    /\ report = "success"

(***************************************************************************)
(* Cancellation.                                                           *)
(***************************************************************************)
\* C8: a page thread that is in a download leaves it only by the step that
\* ends the download, with the page processed and either downloaded or
\* recorded as failed, whether the kill event is set or not; and a join
\* returns only when no page thread is in a download and every page taken
\* from the queue is marked processed.
CancellationDrainsDownload ==
    [][/\ \A t \in BagToSet(pageThreads) :
             (t.pc = "download" /\ CopiesIn(t, pageThreads') < CopiesIn(t, pageThreads)) =>
                /\ BagIn([t EXCEPT !.pc = "check"], pageThreads')
                /\ manga'.chapters[t.page[1]].pages[t.page[2]].isProcessed
                /\ \/ manga'.chapters[t.page[1]].pages[t.page[2]].isDownloaded
                   \/ CopiesIn(t.page, failedPages') > CopiesIn(t.page, failedPages)
       /\ JoinReturns =>
             /\ \A t \in BagToSet(pageThreads) : t.pc # "download"
             /\ \A id \in PoppedPages : PageAt(id).isProcessed
      ]_vars

\* C8, its case: the kill event is set and stop() waits in its joins while a
\* page thread is in the download of a page that has a valid image URL.
CancelledDuringDownload ==
    /\ killEvent
    /\ mainPc = "stopJoin" \/ extPc = "join"
    /\ \E t \in BagToSet(pageThreads) :
          /\ t.pc = "download"
          /\ GetImageFilename(PageAt(t.page)) # <<"raise">>

\* C9: while the kill event is set no thread takes a chapter from
\* chapterQueue or a page from pageQueue.
NoPopAfterKill ==
    [][killEvent => /\ Len(chapterQueue') >= Len(chapterQueue)
                    /\ Len(pageQueue') >= Len(pageQueue)]_vars

\* C10: when stop() has set the kill event and returned, and every worker
\* has exited, waitForCompletion is not left waiting on a condition that
\* nothing can change any more.
CancelledWaitEnds ==
    (killEvent /\ ThreadsStarted /\ AllThreadsDone /\ extPc = "done" /\ mainPc = "wait")
        => ~WaitCondition

(***************************************************************************)
(* The end of a manga and of the session.                                  *)
(***************************************************************************)
\* C11: wherever the thread of crawl() is past the wait (at the final save,
\* at the report, or out of crawl()), every worker thread that was started
\* has exited.
NoWorkerOutlivesWait ==
    mainPc \in {"finalSave", "display", "returned", "raised"} => AllThreadsDone

(***************************************************************************)
(* The cache file.                                                         *)
(***************************************************************************)
\* The threads that have opened the cache file and not yet closed it.
Writers == {i \in DOMAIN savers : savers[i].pc \in {"opened", "half"}}

\* C12: of the threads that call save() of a manga, at most one is between
\* opening the cache file and the end of its write; the parts in an open
\* file are the first part of one writer at most, and a file that has been
\* closed is one whole serialization.
OneWriterAtATime ==
    /\ Cardinality(Writers) <= 1
    /\ disk # CorruptCache
    /\ disk.kind = "open" => \/ disk.chunks = <<>>
                             \/ \E i \in Savers : disk.chunks = <<<<i, 1>>>>
    /\ \A i \in Writers : cacheLock

\* C12, its case: a thread is in the middle of its write over the file of an
\* earlier save while the other threads are inside save() too, waiting for
\* the lock.
WriterAndWaitingSavers ==
    /\ lastSave = "returned"
    /\ \E i \in Savers :
          /\ savers[i].pc = "half"
          /\ disk = OpenFile(<<<<i, 1>>>>)
          /\ \A j \in Savers \ {i} : savers[j].pc = "acquire"

\* The threads that have gone through their code to its end.
Exited(threads) == {t \in BagToSet(threads) : t.pc = "done"}

\* C13: a save that raises changes nothing of the tree and of the failure
\* collections, ends no thread and raises nothing in its caller, which goes
\* on as after a save that returned (the chapter worker to the end of its
\* iteration, the page worker to the top of its loop, crawl() to its
\* report); and after any number of saves that raised, the final save can
\* still write the file.
FailedSaveIsSwallowed ==
    /\ [][log'.saveRaised # log.saveRaised =>
            /\ manga' = manga
            /\ failedChapters' = failedChapters
            /\ failedPages' = failedPages
            /\ lastSave' = "raised"
            /\ Exited(chapterThreads') = Exited(chapterThreads)
            /\ Exited(pageThreads') = Exited(pageThreads)
            /\ BagCardinality(chapterThreads') = BagCardinality(chapterThreads)
            /\ BagCardinality(pageThreads') = BagCardinality(pageThreads)
            /\ mainPc' # "raised"
            /\ \/ mainPc = "finalSave" /\ mainPc' = "display"
               \/ \E t \in BagToSet(chapterThreads) :
                     /\ t.pc = "put"
                     /\ chapterThreads' = Step(chapterThreads, t, [t EXCEPT !.pc = "after"])
               \/ \E t \in BagToSet(pageThreads) :
                     /\ t.pc = "check"
                     /\ pageThreads' = Step(pageThreads, t,
                                            [t EXCEPT !.pc = "loop", !.page = <<>>])]_vars
    /\ [](mainPc = "finalSave" /\ log.saveRaised > 0
            => ENABLED (FinalSave /\ lastSave' = "returned" /\ disk' = ToDict(manga)))

\* C13, its case: saves of the workers raised, one of them after it had
\* truncated the file, all pages were downloaded all the same, and the
\* final save wrote the whole tree.
SavedAfterFailedSaves ==
    /\ log.saveRaised >= 2
    /\ lastSave = "returned"
    /\ mainPc = "returned"
    /\ disk = ToDict(manga)
    /\ \A ci \in DOMAIN manga.chapters :
          \A i \in DOMAIN manga.chapters[ci].pages :
             manga.chapters[ci].pages[i].isDownloaded

(***************************************************************************)
(* The downloaded flag.                                                    *)
(***************************************************************************)
\* The pages of a tree that are marked downloaded, each as the number of its
\* chapter and its own number.
DownloadedIn(m) ==
    IF m = NoManga THEN {}
    ELSE {<<m.chapters[ci].num, m.chapters[ci].pages[i].num>> :
            <<ci, i>> \in {id \in (DOMAIN m.chapters) \X (1..NumPages) :
                             /\ id[2] \in DOMAIN m.chapters[id[1]].pages
                             /\ m.chapters[id[1]].pages[id[2]].isDownloaded}}

\* The pages a cache file marks downloaded.
DownloadedInFile(j) ==
    IF j.kind # "json" THEN {}
    ELSE {<<j.chapters[ci].num, j.chapters[ci].pages[i].num>> :
            <<ci, i>> \in {id \in (DOMAIN j.chapters) \X (1..NumPages) :
                             /\ id[2] \in DOMAIN j.chapters[id[1]].pages
                             /\ j.chapters[id[1]].pages[id[2]].isDownloaded}}

\* C14: a page becomes downloaded only in the step that loads the cache, and
\* then the cache file marks it downloaded, or in the step of the page worker
\* that holds it, and then its download was called, nothing was added to the
\* failed pages and its path is recorded; and the page of a download that
\* raised is not downloaded and has the path it had before.
DownloadedOnlyByCacheOrDownload ==
    [][/\ \A k \in DownloadedIn(manga') \ DownloadedIn(manga) :
            \/ /\ mainPc = "fetchManga"
               /\ k \in DownloadedInFile(disk)
            \/ \E t \in BagToSet(pageThreads) :
                  /\ t.pc = "download"
                  /\ k = <<manga.chapters[t.page[1]].num, PageAt(t.page).num>>
                  /\ failedPages' = failedPages
                  /\ log'.image = log.image + 1
                  /\ manga'.chapters[t.page[1]].pages[t.page[2]].filePath # None
       /\ \A id \in BagToSet(failedPages') :
            CopiesIn(id, failedPages') > CopiesIn(id, failedPages) =>
               /\ ~manga'.chapters[id[1]].pages[id[2]].isDownloaded
               /\ manga'.chapters[id[1]].pages[id[2]].filePath = PageAt(id).filePath
       ]_vars

\* C14, its case: in a run over the cache of a cancelled run, the pages of
\* the first chapter are downloaded as the cache had them, a page of the
\* second chapter is downloaded by this run and the download of another
\* raised.
DownloadedByCacheAndByDownload ==
    /\ diskAtStart = HalfCache
    /\ manga # NoManga
    /\ DownloadedIn(manga) = DownloadedInFile(diskAtStart) \cup {<<2, 1>>}
    /\ DownloadedInFile(diskAtStart) # {}
    /\ BagIn(<<2, 2>>, failedPages)
    /\ PageAt(<<2, 2>>).filePath = None

\* processPage, lines 367-371: no page worker is in the download of a page
\* that is marked downloaded.
NoDownloadOfDownloadedPage ==
    \A t \in BagToSet(pageThreads) : t.pc = "download" => ~PageAt(t.page).isDownloaded

\* C15: a page worker never calls the download of a page that is marked
\* downloaded, and over the runs of the program the download of a page
\* returns without error at most once.
DownloadedAtMostOnce ==
    /\ NoDownloadOfDownloadedPage
    /\ \A k \in BagToSet(log.downloads) : CopiesIn(k, log.downloads) <= 1

(***************************************************************************)
(* Chapters that are complete when the program starts.                     *)
(***************************************************************************)
\* The numbers of the chapters that the cache file of the start holds with
\* a title, at least one page and every page downloaded.
CompleteAtStart ==
    IF diskAtStart.kind # "json" THEN {}
    ELSE {diskAtStart.chapters[k].num :
            k \in {k \in DOMAIN diskAtStart.chapters :
                     /\ diskAtStart.chapters[k].title # None
                     /\ Len(diskAtStart.chapters[k].pages) > 0
                     /\ \A i \in DOMAIN diskAtStart.chapters[k].pages :
                           diskAtStart.chapters[k].pages[i].isDownloaded}}

\* C16: a chapter that is complete when the threads are started is never on
\* chapterQueue and never in the hands of a chapter worker (so it is not
\* fetched), its fetch is not among those that raised, and none of its
\* pages is put on pageQueue.
CompleteChapterIsSkipped ==
    manga # NoManga =>
       \A ci \in DOMAIN manga.chapters :
          manga.chapters[ci].num \in CompleteAtStart =>
             /\ ChapterIsDownloaded(manga.chapters[ci])
             /\ \A k \in DOMAIN chapterQueue : chapterQueue[k] # ci
             /\ \A t \in BagToSet(chapterThreads) : t.chapter # ci
             /\ ci \notin log.raised
             /\ ~BagIn(ci, failedChapters)
             /\ \A id \in BagToSet(enqueued) : id[1] # ci
             /\ \A t \in BagToSet(pageThreads) : t.page = <<>> \/ t.page[1] # ci

\* C16, its case: over the cache of a run that completed the first chapter
\* only, the run is over, the other chapters were fetched and their pages
\* queued, and no more.
OnlyIncompleteChaptersCrawled ==
    /\ diskAtStart = HalfCache
    /\ CompleteAtStart = {1}
    /\ mainPc = "returned"
    /\ log.chapter = NumChapters - 1
    /\ BagToSet(enqueued) = (2..NumChapters) \X (1..NumPages)

(***************************************************************************)
(* The report of the failures.                                             *)
(***************************************************************************)
\* C17: crawl() starts its session with both failure collections empty; and
\* displayUnsuccessfulItems returns, leaves both collections empty, has
\* written one line for each chapter in _failedChapters and one for each
\* page in _failedPages, and has reported success exactly when both were
\* empty.
ReportDrainsFailures ==
    [][/\ mainPc = "crawl" /\ mainPc' # "crawl" =>
             failedChapters' = EmptyBag /\ failedPages' = EmptyBag
       /\ mainPc = "display" /\ mainPc' # "display" =>
             /\ mainPc' = "returned"
             /\ failedChapters' = EmptyBag
             /\ failedPages' = EmptyBag
             /\ log'.lines = log.lines
                   (+) [l \in ({"chapter"} \X BagToSet(failedChapters))
                                \cup ({"page"} \X BagToSet(failedPages)) |->
                          IF l[1] = "chapter" THEN CopiesIn(l[2], failedChapters)
                          ELSE CopiesIn(l[2], failedPages)]
             /\ (report' = "success") <=>
                   (failedChapters = EmptyBag /\ failedPages = EmptyBag)
       ]_vars

\* The report when no page failed: the part of the above that is about the
\* chapters.
ReportDrainsFailedChapters ==
    [][mainPc = "display" /\ mainPc' # "display" /\ failedPages = EmptyBag =>
             /\ mainPc' = "returned"
             /\ failedChapters' = EmptyBag
             /\ log'.lines = log.lines
                   (+) [l \in {"chapter"} \X BagToSet(failedChapters) |->
                          CopiesIn(l[2], failedChapters)]
             /\ (report' = "success") <=> (failedChapters = EmptyBag)
       ]_vars

(***************************************************************************)
(* A manga whose fetch raised.                                             *)
(***************************************************************************)
\* C18: after a fetch of the manga that raised, no worker thread is started
\* for it and no save is made for it: the cache file is the file of the
\* start.
FailedFetchStartsNothing ==
    log.fetchRaised =>
       /\ chapterThreads = EmptyBag
       /\ pageThreads = EmptyBag
       /\ lastSave = "none"
       /\ disk = diskAtStart

(***************************************************************************)
(* A cache file that cannot be loaded.                                     *)
(***************************************************************************)
\* C19: with no cache file, or one that cannot be parsed, the manga after a
\* fetchManga whose fetch returned is the manga as fetched (its url, its
\* title, its skeleton chapters in the order of the site) and crawl() is at
\* startThreads; startThreads can then be taken, and it queues every chapter
\* and starts both pools.
ColdStartUsesFetched ==
    /\ [][/\ log'.manga # log.manga /\ ~log'.fetchRaised =>
                /\ disk.kind \in {"none", "corrupt"}
                /\ manga' = [url |-> MangaUrl, title |-> RemoteTitle,
                             chapters |-> GetChapters]
                /\ mainPc' = "startThreads"
          /\ mainPc = "startThreads" /\ mainPc' = "wait" /\ ~log.fetchRaised =>
                /\ chapterQueue' = [k \in 1..NumChapters |-> k]
                /\ ~endEvent'
                /\ BagCardinality(chapterThreads') = chapterThreadCount
                /\ BagCardinality(pageThreads') = pageThreadCount
          ]_vars
    /\ [](mainPc = "startThreads" => ENABLED StartThreads)

\* C19, its case: over a cache file that could not be parsed, the run
\* fetched every chapter, downloaded every page and wrote a new cache file.
CrawledOverCorruptCache ==
    /\ diskAtStart = CorruptCache
    /\ mainPc = "returned"
    /\ log.chapter = NumChapters
    /\ log.image = NumChapters * NumPages
    /\ failedPages = EmptyBag
    /\ disk = ToDict(manga)

(***************************************************************************)
(* The file name of a page.                                                *)
(***************************************************************************)
\* The number a sequence of decimal digits stands for.
RECURSIVE DecimalValue(_)
DecimalValue(d) ==
    IF d = <<>> THEN 0
    ELSE 10 * DecimalValue(SubSeq(d, 1, Len(d) - 1))
         + (CHOOSE v \in 0..9 : DigitChars[v + 1] = d[Len(d)])

\* Whether the text s ends with a '.' and this extension.
EndsWithExt(s, ext) ==
    /\ Len(s) > Len(ext)
    /\ SubSeq(s, Len(s) - Len(ext), Len(s)) = <<".">> \o ext

\* C20: once a page is processed: if its image URL ends with '.png', '.jpg'
\* or '.jpeg', its file name is digits, a dot and that extension, where the
\* digits are the decimal digits of its number, at least 4 of them, with
\* zeros in front only to make them 4 (page 7 with '.jpeg' has the name
\* '0007.jpeg'); if not (no image URL, no dot, or any other text after the
\* last dot), it has no file name and no path, it is not downloaded and it
\* is in the failed pages.
FilenameDerivation ==
    \A ci \in DOMAIN manga.chapters : \A i \in DOMAIN manga.chapters[ci].pages :
       LET p == manga.chapters[ci].pages[i]
           exts == {e \in {<<"p", "n", "g">>, <<"j", "p", "g">>, <<"j", "p", "e", "g">>} :
                      p.imageUrl # None /\ EndsWithExt(p.imageUrl, e)}
       IN  p.isProcessed =>
              IF exts # {}
              THEN \A e \in exts :
                      LET w == Len(p.filename) - Len(e) - 1
                          d == SubSeq(p.filename, 1, w)
                      IN  /\ p.filename # None
                          /\ w >= 4
                          /\ SubSeq(p.filename, w + 1, Len(p.filename)) = <<".">> \o e
                          /\ \A k \in 1..w : \E v \in 1..10 : DigitChars[v] = d[k]
                          /\ DecimalValue(d) = p.num
                          /\ w > 4 => d[1] # "0"
                          /\ (p.num = 7 /\ e = <<"j", "p", "e", "g">>) =>
                                p.filename = <<"0", "0", "0", "7", ".", "j", "p", "e", "g">>
              ELSE /\ p.filename = None
                   /\ p.filePath = None
                   /\ ~p.isDownloaded
                   /\ BagIn(<<ci, i>>, failedPages)

\* C20, its case: page 7 with an image URL that ends with '.jpeg' is
\* downloaded under the name '0007.jpeg'.
Page7Jpeg ==
    \E t \in BagToSet(pageThreads) :
       /\ t.pc = "check"
       /\ PageAt(t.page).num = 7
       /\ PageAt(t.page).imageUrl = <<"i", ".", "j", "p", "e", "g">>
       /\ PageAt(t.page).isDownloaded
       /\ PageAt(t.page).filename = <<"0", "0", "0", "7", ".", "j", "p", "e", "g">>

(***************************************************************************)
(* What a failure leaves of a chapter and of a page.                       *)
(***************************************************************************)
\* The chapters and the pages that this step puts in the failure
\* collections.
NewFailedChapters ==
    {ci \in BagToSet(failedChapters') :
        CopiesIn(ci, failedChapters') > CopiesIn(ci, failedChapters)}

NewFailedPages ==
    {id \in BagToSet(failedPages') : CopiesIn(id, failedPages') > CopiesIn(id, failedPages)}

\* What the cache file holds of the page id, when it holds the page.
PageInFile(id) == disk.chapters[id[1]].pages[id[2]]

HasPageInFile(id) ==
    /\ disk.kind = "json"
    /\ id[1] \in DOMAIN disk.chapters
    /\ id[2] \in DOMAIN disk.chapters[id[1]].pages

\* C21 as the spec states it: the step in which the fetch of a chapter fails
\* leaves the title and the pages of the chapter as they were, and the step
\* in which the download of a page fails leaves every field of the page
\* that is written to the cache file (image URL, file name, path,
\* downloaded) as it was, not downloaded.
FailureLeavesPersistedState ==
    [][/\ \A ci \in NewFailedChapters :
             /\ manga'.chapters[ci].title = manga.chapters[ci].title
             /\ manga'.chapters[ci].pages = manga.chapters[ci].pages
       /\ \A id \in NewFailedPages :
             /\ PageToDict(manga'.chapters[id[1]].pages[id[2]]) = PageToDict(PageAt(id))
             /\ ~PageAt(id).isDownloaded
       ]_vars

\* C21, amended: as above, but the file name of the page may have been set
\* by the failed download, to the name derived from its number and its
\* image URL; and the cache file never holds a failed page as downloaded or
\* with a path.
FailureLeavesAllButFilename ==
    /\ [][/\ \A ci \in NewFailedChapters :
                /\ manga'.chapters[ci].title = manga.chapters[ci].title
                /\ manga'.chapters[ci].pages = manga.chapters[ci].pages
          /\ \A id \in NewFailedPages :
                LET before == PageAt(id)
                    after  == manga'.chapters[id[1]].pages[id[2]]
                IN  /\ PageToDict(after) =
                          PageToDict([before EXCEPT !.filename = after.filename])
                    /\ after.filename # before.filename =>
                          /\ before.filename = None
                          /\ after.filename = GetImageFilename(before)
                          /\ after.filename # <<"raise">>
                    /\ ~before.isDownloaded
                    /\ before.filePath = None
          ]_vars
    /\ [](\A id \in BagToSet(failedPages) :
             HasPageInFile(id) =>
                ~PageInFile(id).isDownloaded /\ PageInFile(id).filePath = None)

\* C21, its case: the fetch of a chapter failed and the download of a page
\* of another chapter failed after its file name was set; the cache file
\* written afterwards holds the failed chapter without pages and the failed
\* page with its file name, without path and not downloaded.
FailuresInCacheFile ==
    \E id \in BagToSet(failedPages) :
       /\ failedChapters # EmptyBag
       /\ HasPageInFile(id)
       /\ PageInFile(id).filename # None
       /\ PageInFile(id).filePath = None
       /\ ~PageInFile(id).isDownloaded
       /\ \A ci \in BagToSet(failedChapters) :
             /\ ci \in DOMAIN disk.chapters
             /\ disk.chapters[ci].pages = <<>>

(***************************************************************************)
(* The title after updateFromCache.                                        *)
(***************************************************************************)
\* C22: after updateFromCache, a fresh manga that had a title has that
\* title still, and a fresh manga that had none has the title of the
\* cached manga.
MergeKeepsFreshTitle ==
    mergeOutput # NoManga =>
       mergeOutput.title = IF mergeInput.fresh.title # None
                           THEN mergeInput.fresh.title
                           ELSE mergeInput.cached.title

(***************************************************************************)
(* The references after updateFromCache.                                   *)
(***************************************************************************)
\* C23: after updateFromCache every chapter of the list refers to the fresh
\* manga and has its title, every page of a chapter of the list refers to
\* that chapter and has its number and its copy of the title, no two
\* chapters of the list are one object, and so nothing in the tree refers to
\* the cached manga or to a cached chapter that is not in the list.
MergeSetsParents ==
    mergeOutput # NoManga =>
       /\ mergeOutput.obj = "fresh"
       /\ \A i \in DOMAIN mergeOutput.chapters :
             LET c == mergeOutput.chapters[i]
             IN  /\ c.parent = "fresh"
                 /\ c.mangaTitle = mergeOutput.title
                 /\ \A j \in DOMAIN mergeOutput.chapters :
                       mergeOutput.chapters[j].obj = c.obj => j = i
                 /\ \A k \in DOMAIN c.pages :
                       /\ c.pages[k].parent = c.obj
                       /\ c.pages[k].chapterNum = c.num
                       /\ c.pages[k].mangaTitle = c.mangaTitle

\* C23, its case: the list after the merge has a fresh chapter with the
\* pages of a cached chapter, and a cached chapter that was appended, with
\* its own pages.
MergedPagesAndAppendedChapter ==
    /\ mergeOutput # NoManga
    /\ \E i, j \in DOMAIN mergeOutput.chapters :
          /\ mergeOutput.chapters[i].obj[1] = "fresh"
          /\ mergeOutput.chapters[i].pages # <<>>
          /\ mergeOutput.chapters[i].pages[1].obj[1] = "cached"
          /\ mergeOutput.chapters[j].obj[1] = "cached"
          /\ mergeOutput.chapters[j].pages # <<>>

(***************************************************************************)
(* processChapter.                                                         *)
(***************************************************************************)
\* A thread in state t takes a step.
StepsFrom(threads, t) == CopiesIn(t, threads') < CopiesIn(t, threads)

\* The numbers of the chapters that the cache file of the start holds with
\* a title and pages, not all of them downloaded.
ReusableAtStart ==
    IF diskAtStart.kind # "json" THEN {}
    ELSE {diskAtStart.chapters[k].num :
            k \in {k \in DOMAIN diskAtStart.chapters :
                     /\ diskAtStart.chapters[k].title # None
                     /\ Len(diskAtStart.chapters[k].pages) > 0
                     /\ \E i \in DOMAIN diskAtStart.chapters[k].pages :
                           ~diskAtStart.chapters[k].pages[i].isDownloaded}}

FailedChapterQueuesNothing ==
    /\ [][\A ci \in NewFailedChapters :
             /\ failedChapters' = failedChapters (+) SetToBag({ci})
             /\ ~BagIn(ci, failedChapters)
             /\ pageQueue' = pageQueue
             /\ enqueued' = enqueued
             /\ disk' = disk
             /\ lastSave' = lastSave
             /\ log'.saveRaised = log.saveRaised
             /\ \E t \in BagToSet(chapterThreads) :
                   /\ t.pc = "process"
                   /\ t.chapter = ci
                   /\ chapterThreads' = Step(chapterThreads, t,
                                             [t EXCEPT !.pc = "after", !.idx = 1])
          ]_vars
    /\ [][\A t \in BagToSet(chapterThreads) :
             (t.chapter \in log.raised /\ StepsFrom(chapterThreads, t)) =>
                disk' = disk /\ lastSave' = lastSave /\ pageQueue' = pageQueue
          ]_vars
    /\ [](\A ci \in log.raised :
             /\ \A id \in BagToSet(enqueued) : id[1] # ci
             /\ mainPc \notin {"display", "returned", "raised"} =>
                   CopiesIn(ci, failedChapters) = 1)

\* C25, its case: the fetch of the first chapter failed, and the run went
\* on to its end: the other chapters were fetched and their pages queued,
\* and the first chapter is the one failed chapter.
OneChapterFailed ==
    /\ mainPc = "finalSave"
    /\ log.raised = {1}
    /\ failedChapters = SetToBag({1})
    /\ log.chapter = NumChapters
    /\ BagToSet(enqueued) = (2..NumChapters) \X (1..NumPages)

\* A step in which saveManga is called: the file is written from the tree,
\* or save() raised and the error was logged.
SaveAttempted ==
    \/ disk' = ToDict(manga) /\ lastSave' = "returned"
    \/ log'.saveRaised = log.saveRaised + 1

\* C26: a chapter worker that leaves the loop over the pages of its chapter
\* has put every page of the chapter on pageQueue, each one once, and calls
\* saveManga in that step; and a worker that holds a chapter it is to queue
\* takes its next chapter only after that step.
ReadyChapterQueuesEveryPage ==
    [][\A t \in BagToSet(chapterThreads) :
          /\ (t.pc = "put" /\ StepsFrom(chapterThreads, t)
                 /\ BagIn([t EXCEPT !.pc = "after"], chapterThreads')) =>
                /\ \A i \in DOMAIN manga.chapters[t.chapter].pages :
                      CopiesIn(<<t.chapter, i>>, enqueued') = 1
                /\ SaveAttempted
          /\ (t.pc = "put" /\ StepsFrom(chapterThreads, t)) =>
                \/ BagIn([t EXCEPT !.pc = "after"], chapterThreads')
                \/ BagIn([t EXCEPT !.idx = t.idx + 1], chapterThreads')
      ]_vars

\* The chapters and the pages that the workers hold.
HeldChapters == {t.chapter : t \in {u \in BagToSet(chapterThreads) : u.chapter # 0}}
HeldPages == {t.page : t \in {u \in BagToSet(pageThreads) : u.page # <<>>}}

\* C27: in a session a chapter is on chapterQueue at most once and a page is
\* put on pageQueue at most once; a chapter or page that a worker holds is
\* no longer on its queue, and no two workers hold the same chapter or the
\* same page.
ExclusiveOwnership ==
    /\ \A i, j \in DOMAIN chapterQueue : i # j => chapterQueue[i] # chapterQueue[j]
    /\ \A i, j \in DOMAIN pageQueue : i # j => pageQueue[i] # pageQueue[j]
    /\ \A id \in BagToSet(enqueued) : CopiesIn(id, enqueued) = 1
    /\ \A k \in DOMAIN pageQueue : BagIn(pageQueue[k], enqueued)
    /\ \A t \in BagToSet(chapterThreads) :
          t.chapter # 0 =>
             /\ CopiesIn(t, chapterThreads) = 1
             /\ \A u \in BagToSet(chapterThreads) : u # t => u.chapter # t.chapter
             /\ \A k \in DOMAIN chapterQueue : chapterQueue[k] # t.chapter
    /\ \A t \in BagToSet(pageThreads) :
          t.page # <<>> =>
             /\ CopiesIn(t, pageThreads) = 1
             /\ \A u \in BagToSet(pageThreads) : u # t => u.page # t.page
             /\ \A k \in DOMAIN pageQueue : pageQueue[k] # t.page
             /\ BagIn(t.page, enqueued)

\* C27, its case: two chapter workers hold the two chapters, both in the
\* loop over the pages, while a page worker holds a page that one of them
\* has put on pageQueue and more pages wait on the queue.
TwoChapterWorkersAndPageWorker ==
    /\ Cardinality(HeldChapters) = 2
    /\ \A t \in BagToSet(chapterThreads) : t.pc = "put"
    /\ \E t \in BagToSet(pageThreads) : t.pc = "download"
    /\ Len(pageQueue) >= 2

\* C28: a chapter worker that has passed the test of the loop and is at
\* chapterQueue.get() finds a chapter on the queue, so that the get returns
\* and the worker is never left waiting on an empty queue.
ChapterGetNeverBlocks ==
    \A t \in BagToSet(chapterThreads) : t.pc = "get" => chapterQueue # <<>>

\* The pages of chapter ci of manga m that are neither downloaded nor
\* processed.
Unattempted(m, ci) ==
    {i \in DOMAIN m.chapters[ci].pages :
        /\ ~m.chapters[ci].pages[i].isDownloaded
        /\ ~m.chapters[ci].pages[i].isProcessed}

\* C29: a step that marks as processed the last page of a chapter that was
\* neither downloaded nor processed is the step of a page worker that holds
\* a page of that chapter and goes on to the test of the chapter; a page
\* worker at that test whose chapter has no page left that is neither
\* downloaded nor processed calls saveManga in its next step; and the pages
\* of the chapter stay as they are until it takes that step.
SettledChapterIsSaved ==
    /\ [][(manga # NoManga /\ manga' # NoManga) =>
             \A ci \in DOMAIN manga.chapters :
                (Unattempted(manga, ci) # {} /\ ci \in DOMAIN manga'.chapters
                   /\ Unattempted(manga', ci) = {}) =>
                   \E t \in BagToSet(pageThreads) :
                      /\ t.pc = "download"
                      /\ t.page[1] = ci
                      /\ t.page[2] \in Unattempted(manga, ci)
                      /\ manga'.chapters[ci].pages[t.page[2]].isProcessed
                      /\ pageThreads' = Step(pageThreads, t, [t EXCEPT !.pc = "check"])
          ]_vars
    /\ [][\A t \in BagToSet(pageThreads) :
             (t.pc = "check" /\ Unattempted(manga, t.page[1]) = {}) =>
                IF StepsFrom(pageThreads, t)
                THEN /\ SaveAttempted
                     /\ BagIn([t EXCEPT !.pc = "loop", !.page = <<>>], pageThreads')
                ELSE /\ manga' # NoManga
                     /\ t.page[1] \in DOMAIN manga'.chapters
                     /\ Unattempted(manga', t.page[1]) = {}
          ]_vars
    /\ [](\A t \in BagToSet(pageThreads) : t.pc = "check" => manga # NoManga)

\* C29, its case: two page workers have each processed a page of the same
\* chapter, which leaves no page of it to attempt, and both are at the test
\* of the chapter; the cache file does not hold the chapter as attempted.
TwoWorkersSettleOneChapter ==
    \E ci \in 1..NumChapters :
       /\ manga # NoManga
       /\ Cardinality({t \in BagToSet(pageThreads) :
                          t.pc = "check" /\ t.page[1] = ci}) = 2
       /\ ChapterIsProcessed(manga.chapters[ci])
       /\ disk # ToDict(manga)

\* C30: every page that a page worker has taken from pageQueue has
\* isProcessed set, unless the worker that took it still holds it and has
\* not yet come back from the download; a worker that goes back to the top
\* of its loop leaves the page it held with isProcessed set.
PoppedPageIsProcessed ==
    manga # NoManga =>
       /\ \A id \in PoppedPages :
             \/ PageAt(id).isProcessed
             \/ \E t \in BagToSet(pageThreads) : t.pc = "download" /\ t.page = id
       /\ \A t \in BagToSet(pageThreads) :
             t.pc = "check" => PageAt(t.page).isProcessed

\* C30, its case: of the two pages of a chapter that were taken from
\* pageQueue, one was skipped because the cache had it as downloaded and
\* the other failed to download; both have isProcessed set and no page
\* worker holds a page any more.
SkippedAndFailed ==
    /\ manga # NoManga
    /\ \A t \in BagToSet(pageThreads) : t.pc \in {"loop", "done"}
    /\ \E a, c \in PoppedPages :
          /\ a[1] = c[1]
          /\ PageAt(a).isDownloaded
          /\ ~BagIn(<<manga.chapters[a[1]].num, PageAt(a).num>>, log.downloads)
          /\ BagIn(c, failedPages)
          /\ ~PageAt(c).isDownloaded
          /\ PageAt(a).isProcessed /\ PageAt(c).isProcessed

\* C31: the pages of a chapter are put on pageQueue in the order of the
\* page list of the chapter, which is the order of their numbers, and
\* pageQueue hands them out in that order: a page is put or taken only
\* when the pages before it in its chapter have been, the entries of a
\* chapter on the queue are in ascending order, and a get takes the entry
\* at the head.
PagesQueuedInOrder ==
    manga # NoManga =>
       /\ \A b \in BagToSet(enqueued) : \A i \in 1..(b[2] - 1) :
             /\ BagIn(<<b[1], i>>, enqueued)
             /\ PageAt(<<b[1], i>>).num < PageAt(b).num
             /\ b \in PoppedPages => <<b[1], i>> \in PoppedPages
       /\ \A j, k \in DOMAIN pageQueue :
             (j < k /\ pageQueue[j][1] = pageQueue[k][1]) =>
                pageQueue[j][2] < pageQueue[k][2]
       /\ \A t \in BagToSet(pageThreads) :
             t.pc = "get" => (pageQueue # <<>> => ENABLED PageGet(t))

\* C31, its case: two page workers took the two pages of a chapter in
\* order, and the second page is processed while the first one is still
\* being downloaded.
SecondPageDoneFirst ==
    /\ manga # NoManga
    /\ \E t, u \in BagToSet(pageThreads) :
          /\ t.pc = "download" /\ t.page[2] = 1
          /\ u.pc = "check" /\ u.page = <<t.page[1], 2>>
          /\ PageAt(u.page).isProcessed
          /\ ~PageAt(t.page).isProcessed

\* C32: without cancellation no worker is left for ever at a get on an
\* empty queue: in a state in which both queues are empty and every worker
\* has either exited or is waiting in a get (so that nothing will be put
\* on a queue any more), every worker has exited.
NoWorkerBlocksForever ==
    (/\ ~killEvent
     /\ ThreadsStarted
     /\ chapterQueue = <<>>
     /\ pageQueue = <<>>
     /\ \A t \in BagToSet(chapterThreads) \cup BagToSet(pageThreads) :
           t.pc \in {"done", "get"})
        => AllThreadsDone

\* C33: when crawl() has returned (or has raised from its report), every
\* page whose download returned without error in the session is marked
\* downloaded in the cache file.
DownloadsAreInCacheFile ==
    mainPc \in {"returned", "raised"} =>
       \A d \in BagToSet(log.downloads) : d \in DownloadedInFile(disk)

\* C34: when the report says that everything was fetched, the manga was
\* fetched and every page of every chapter of it is downloaded.
SuccessReportMeansAllDownloaded ==
    report = "success" =>
       /\ ~log.fetchRaised
       /\ manga # NoManga
       /\ Len(manga.chapters) = NumChapters
       /\ \A ci \in DOMAIN manga.chapters :
             /\ Len(manga.chapters[ci].pages) > 0
             /\ \A i \in DOMAIN manga.chapters[ci].pages :
                   manga.chapters[ci].pages[i].isDownloaded

(***************************************************************************)
(* Manga.toDict inside save(), attribute by attribute, while page workers  *)
(* run downloadImage on pages of the same tree, assignment by assignment.  *)
(* The thread of save() is savers[1]: it holds the dictionaries it has     *)
(* built so far; the page workers are the threads of pageThreads.          *)
(***************************************************************************)
\* The manga with its first chapter fetched, the other chapters not yet.
SnapshotManga ==
    [FetchedManga EXCEPT !.chapters[1] = FetchedChapterFrom(GetChapters[1], ValidSite)]

SnapshotIdle ==
    [pc |-> "idle", ci |-> 0, i |-> 0, filePath |-> None, filename |-> None,
     pages |-> <<>>, chapters |-> <<>>]

InitSnapshot ==
    /\ savers = <<SnapshotIdle>>
    /\ cacheLock = FALSE
    /\ lastSave = "none"
    /\ manga = SnapshotManga
    /\ chapterThreadCount = 1
    /\ pageThreadCount \in 1..(MaxThreads - 1)
    /\ imageUrlOf = ValidSite
    /\ environment = [canceller |-> "interrupt", saveMayFail |-> FALSE, listing |-> "ok"]
    /\ disk = NoCache
    /\ diskAtStart = disk
    /\ mergeInput = NoManga
    /\ mergeOutput = NoManga
    /\ mainPc = "wait"
    /\ extPc = "idle"
    /\ isCrawling = TRUE
    /\ killEvent = FALSE
    /\ endEvent = TRUE
    /\ chapterQueue = <<>>
    /\ pageQueue = [i \in 1..NumPages |-> <<1, i>>]
    /\ failedChapters = EmptyBag
    /\ failedPages = EmptyBag
    /\ chapterThreads = EmptyBag
    /\ pageThreads = Threads(pageThreadCount, [pc |-> "loop", page |-> <<>>])
    /\ enqueued = SetToBag({<<1, i>> : i \in 1..NumPages})
    /\ log = [manga |-> 1, chapter |-> 1, image |-> 0, raised |-> {},
              saveRaised |-> 0, fetchRaised |-> FALSE, lines |-> EmptyBag,
              downloads |-> EmptyBag, runs |-> 1]
    /\ report = "none"

SnapshotFrame ==
    UNCHANGED <<chapterThreadCount, pageThreadCount, imageUrlOf, environment,
                diskAtStart, mergeInput, mergeOutput, mainPc, extPc, isCrawling,
                killEvent, failedChapters, report, endEvent, chapterQueue,
                enqueued, chapterThreads>>

\* Manga.save, lines 290-303: the lock is taken, the file is opened and
\* self.toDict() is called.
ToDictBegin ==
    /\ savers[1].pc = "idle"
    /\ ~cacheLock
    /\ cacheLock' = TRUE
    /\ savers' = <<[SnapshotIdle EXCEPT !.pc = "chapter", !.ci = 1]>>
    /\ UNCHANGED <<disk, lastSave, manga, pageQueue, pageThreads, failedPages, log>>
    /\ SnapshotFrame

\* Manga.toDict, line 337, and Chapter.toDict, lines 280-285: the next
\* chapter of the list, which has pages to go through or has none.
ToDictChapter ==
    LET sv == savers[1]
    IN
    /\ sv.pc = "chapter"
    /\ IF sv.ci > Len(manga.chapters)
       THEN savers' = <<[sv EXCEPT !.pc = "write"]>>
       ELSE IF Len(manga.chapters[sv.ci].pages) = 0
       THEN savers' = <<[sv EXCEPT !.ci = @ + 1,
                                   !.chapters = Append(@, ChapterToDict(manga.chapters[sv.ci]))]>>
       ELSE savers' = <<[sv EXCEPT !.pc = "filePath", !.i = 1, !.pages = <<>>]>>
    /\ UNCHANGED <<disk, lastSave, cacheLock, manga, pageQueue, pageThreads,
                   failedPages, log>>
    /\ SnapshotFrame

\* Page.toDict, line 254: 'filePath': self.filePath
ToDictFilePath ==
    LET sv == savers[1]
    IN
    /\ sv.pc = "filePath"
    /\ savers' = <<[sv EXCEPT !.pc = "filename",
                              !.filePath = manga.chapters[sv.ci].pages[sv.i].filePath]>>
    /\ UNCHANGED <<disk, lastSave, cacheLock, manga, pageQueue, pageThreads,
                   failedPages, log>>
    /\ SnapshotFrame

\* Page.toDict, line 255: 'filename': self.filename
ToDictFilename ==
    LET sv == savers[1]
    IN
    /\ sv.pc = "filename"
    /\ savers' = <<[sv EXCEPT !.pc = "isDownloaded",
                              !.filename = manga.chapters[sv.ci].pages[sv.i].filename]>>
    /\ UNCHANGED <<disk, lastSave, cacheLock, manga, pageQueue, pageThreads,
                   failedPages, log>>
    /\ SnapshotFrame

\* Page.toDict, line 256: 'isDownloaded': self.isDownloaded, which ends the
\* dictionary of the page; after the last page of the chapter, the
\* dictionary of the chapter.
ToDictIsDownloaded ==
    LET sv    == savers[1]
        c     == manga.chapters[sv.ci]
        p     == c.pages[sv.i]
        pd    == [PageToDict(p) EXCEPT !.filePath = sv.filePath,
                                       !.filename = sv.filename]
        pages == Append(sv.pages, pd)
    IN
    /\ sv.pc = "isDownloaded"
    /\ IF sv.i < Len(c.pages)
       THEN savers' = <<[sv EXCEPT !.pc = "filePath", !.i = @ + 1, !.pages = pages,
                                   !.filePath = None, !.filename = None]>>
       ELSE savers' = <<[sv EXCEPT !.pc = "chapter", !.ci = @ + 1, !.i = 0,
                                   !.pages = <<>>,
                                   !.filePath = None, !.filename = None,
                                   !.chapters = Append(@, [ChapterToDict(c) EXCEPT
                                                             !.pages = pages])]>>
    /\ UNCHANGED <<disk, lastSave, cacheLock, manga, pageQueue, pageThreads,
                   failedPages, log>>
    /\ SnapshotFrame

\* Manga.save, lines 302-309: the dictionary is written, the lock released.
SnapshotWrite ==
    LET sv == savers[1]
    IN
    /\ sv.pc = "write"
    /\ disk' = [ToDict(manga) EXCEPT !.chapters = sv.chapters]
    /\ cacheLock' = FALSE
    /\ lastSave' = "returned"
    /\ savers' = <<SnapshotIdle>>
    /\ UNCHANGED <<manga, pageQueue, pageThreads, failedPages, log>>
    /\ SnapshotFrame

\* pageWorker, line 355: a page worker takes the next page.
TakePage(t) ==
    /\ t.pc = "loop"
    /\ pageQueue # <<>>
    /\ pageQueue' = Get(pageQueue)
    /\ pageThreads' = Step(pageThreads, t, [t EXCEPT !.pc = "download",
                                                     !.page = Head(pageQueue)])
    /\ UNCHANGED <<disk, lastSave, cacheLock, savers, manga, failedPages, log>>
    /\ SnapshotFrame

\* Page.downloadImage, lines 204-205: self.filename = self.getImageFilename()
SetFilename(t) ==
    LET id == t.page
        c  == manga.chapters[id[1]]
        p  == c.pages[id[2]]
    IN
    /\ t.pc = "download"
    /\ manga' = [manga EXCEPT !.chapters[id[1]].pages[id[2]].filename =
                                 DownloadImage(manga, c, p, TRUE).page.filename]
    /\ pageThreads' = Step(pageThreads, t, [t EXCEPT !.pc = "named"])
    /\ UNCHANGED <<disk, lastSave, cacheLock, savers, pageQueue, failedPages, log>>
    /\ SnapshotFrame

\* Page.downloadImage, lines 224-228: Downloader.downloadImage returns an
\* error, which is raised and recorded by processPage, or returns none and
\* self.filePath is assigned.
DownloadReturns(t) ==
    LET id == t.page
        c  == manga.chapters[id[1]]
        p  == c.pages[id[2]]
    IN
    /\ t.pc = "named"
    /\ \E err \in BOOLEAN :
          IF err
          THEN /\ failedPages' = failedPages (+) SetToBag({id})
               /\ manga' = manga
               /\ pageThreads' = Step(pageThreads, t, [t EXCEPT !.pc = "processed"])
          ELSE /\ failedPages' = failedPages
               /\ manga' = [manga EXCEPT !.chapters[id[1]].pages[id[2]].filePath =
                                            DownloadImage(manga, c, p, FALSE).page.filePath]
               /\ pageThreads' = Step(pageThreads, t, [t EXCEPT !.pc = "pathed"])
    /\ log' = [log EXCEPT !.image = @ + 1]
    /\ UNCHANGED <<disk, lastSave, cacheLock, savers, pageQueue>>
    /\ SnapshotFrame

\* Page.downloadImage, line 229: self.isDownloaded = True
SetIsDownloaded(t) ==
    LET id == t.page
    IN
    /\ t.pc = "pathed"
    /\ manga' = [manga EXCEPT !.chapters[id[1]].pages[id[2]].isDownloaded = TRUE]
    /\ log' = [log EXCEPT !.downloads =
                   @ (+) SetToBag({<<manga.chapters[id[1]].num, PageAt(id).num>>})]
    /\ pageThreads' = Step(pageThreads, t, [t EXCEPT !.pc = "processed"])
    /\ UNCHANGED <<disk, lastSave, cacheLock, savers, pageQueue, failedPages>>
    /\ SnapshotFrame

\* processPage, line 385: page.isProcessed = True
SetIsProcessed(t) ==
    LET id == t.page
    IN
    /\ t.pc = "processed"
    /\ manga' = [manga EXCEPT !.chapters[id[1]].pages[id[2]] = Processed(@)]
    /\ pageThreads' = Step(pageThreads, t, [t EXCEPT !.pc = "loop", !.page = <<>>])
    /\ UNCHANGED <<disk, lastSave, cacheLock, savers, pageQueue, failedPages, log>>
    /\ SnapshotFrame

NextSnapshot ==
    \/ ToDictBegin
    \/ ToDictChapter
    \/ ToDictFilePath
    \/ ToDictFilename
    \/ ToDictIsDownloaded
    \/ SnapshotWrite
    \/ \E t \in BagToSet(pageThreads) : TakePage(t)
    \/ \E t \in BagToSet(pageThreads) : SetFilename(t)
    \/ \E t \in BagToSet(pageThreads) : DownloadReturns(t)
    \/ \E t \in BagToSet(pageThreads) : SetIsDownloaded(t)
    \/ \E t \in BagToSet(pageThreads) : SetIsProcessed(t)

SpecSnapshot == InitSnapshot /\ [][NextSnapshot]_vars

\* C35: in every cache file that a save has written, a page that is marked
\* downloaded has a filename and a file path.
SnapshotIsConsistent ==
    disk.kind = "json" =>
       \A ci \in DOMAIN disk.chapters : \A i \in DOMAIN disk.chapters[ci].pages :
          disk.chapters[ci].pages[i].isDownloaded =>
             /\ disk.chapters[ci].pages[i].filename # None
             /\ disk.chapters[ci].pages[i].filePath # None

\* The threads that are inside save() between acquire() and release().
LockHolders ==
    {i \in Savers : savers[i].pc \in {"locked", "opened", "half", "written", "except"}}

\* C36: the lock of the manga is held exactly while one thread is inside
\* save() past its acquire(); the step in which a save() returns or raises
\* is the one that frees the lock, which was held until then; and a thread
\* that waits in acquire() while no thread is past it can take the lock.
LockHeldOnlyInSave ==
    /\ [](cacheLock <=> LockHolders # {})
    /\ [](Cardinality(LockHolders) <= 1)
    /\ [][\A i \in Savers :
             (savers[i].pc \in {"written", "except"} /\ savers'[i].pc = "idle") <=>
                (cacheLock /\ ~cacheLock' /\ i \in LockHolders)]_vars
    /\ [](\A i \in Savers :
             (savers[i].pc = "acquire" /\ LockHolders = {}) => ENABLED SaveAcquire(i))

\* C36, its case: a save() raised and freed the lock, and a later save() of
\* another thread holds the lock and has opened the file, while a third
\* thread waits for the lock.
SaveAfterRaisedSave ==
    /\ lastSave = "raised"
    /\ cacheLock
    /\ \E i, j \in Savers : savers[i].pc = "opened" /\ savers[j].pc = "acquire"

(***************************************************************************)
(* crawl() over a list of several manga URLs: the loop of lines 79-81      *)
(* calls _crawl for one URL after the other.  The mangas of the list have  *)
(* the same shape and each has its own cache file, which does not exist    *)
(* when its turn comes; log.manga counts the mangas whose fetch was begun. *)
(***************************************************************************)
InitList ==
    /\ chapterThreadCount = 1
    /\ pageThreadCount = 1
    /\ imageUrlOf = ValidSite
    /\ environment \in [canceller : {"interrupt", "stop"}, saveMayFail : {FALSE},
                        listing : {"ok"}]
    /\ disk = NoCache
    /\ diskAtStart = disk
    /\ mergeInput = NoManga
    /\ mergeOutput = NoManga
    /\ InitSession

\* _crawl, line 118, for the last URL of the list.
LastFinalSave ==
    /\ log.manga >= NumMangas
    /\ FinalSave

\* _crawl, line 118, for a URL that is not the last: _crawl returns into
\* the loop of crawl().
FinalSaveInLoop ==
    /\ mainPc = "finalSave"
    /\ log.manga < NumMangas
    /\ SaveManga
    /\ mainPc' = "nextManga"
    /\ UNCHANGED <<config, extPc, session, manga, endEvent,
                   queues, chapterThreads, pageThreads>>

\* crawl(), lines 80-81: the loop goes on to the next URL, whose manga has
\* no cache file yet.
NextManga ==
    /\ mainPc = "nextManga"
    /\ mainPc' = "fetchManga"
    /\ disk' = NoCache
    /\ diskAtStart' = NoCache
    /\ UNCHANGED <<chapterThreadCount, pageThreadCount, imageUrlOf, environment,
                   mergeInput, mergeOutput, savers, cacheLock, lastSave, extPc,
                   session, manga, endEvent, queues, chapterThreads, pageThreads,
                   log>>

NextList ==
    \/ Crawl
    \/ FetchManga
    \/ StartThreads
    \/ WaitForCompletion
    \/ JoinThreads
    \/ FinalSaveInLoop
    \/ NextManga
    \/ LastFinalSave
    \/ KeyboardInterrupt
    \/ Stop
    \/ StopJoin
    \/ DisplayUnsuccessfulItems
    \/ ExternalStop
    \/ ExternalStopJoin
    \/ \E t \in BagToSet(chapterThreads) : ChapterWorker(t)
    \/ \E t \in BagToSet(pageThreads) : PageWorker(t)

SpecList == InitList /\ [][NextList]_vars

\* C37: while the kill event is set, crawl() begins no manga after the
\* first one of the session: once a manga has been fetched, no other manga
\* is fetched and no threads are started for another manga.
NoNextMangaAfterCancel ==
    [][(killEvent /\ log.manga >= 1) =>
          /\ log'.manga = log.manga
          /\ log.manga >= 2 => ~(mainPc = "startThreads" /\ mainPc' = "wait")]_vars

====
